---- MODULE Spec2Model ----
(***************************************************************************)
(* Model of localPacketDump-rs (src/localPacketDump-rs/src/main.rs): the   *)
(* capture task (monitor_interface / record_packet), the one-second        *)
(* publisher (publish_bytes_and_reset), the status refresher               *)
(* (fetch_status) and the scrape handler (encode_metrics), running as      *)
(* concurrent tokio tasks over the shared TrafficMetrics.                  *)
(*                                                                         *)
(* A DashMap is a table of shards, each behind its own lock: iter() and    *)
(* clear() visit the shards one after the other, so a concurrent           *)
(* record_packet can touch a shard before or after the walk has passed it. *)
(* One step of a walk handles one shard.                                   *)
(***************************************************************************)
EXTENDS Integers, Sequences, FiniteSets, TLC

\* ------------------------------------------------------------------ bounds
MaxFrames == 2      \* frames that reach a window counter in one behaviour
MaxLen == 1         \* largest frame length
NumShards == 2      \* shards of each DashMap
MaxSeries == 2      \* most series in a query result

\* ---------------------------------------------------------------- constants
MinBytes == 100     \* bytes a peer must exceed to be probed

\* --------------------------------------------------------------- addresses
\* An address is its four octets; the strings the code uses as keys are the
\* canonical text of exactly these.
LocalA == <<10, 40, 0, 5>>
LocalB == <<10, 40, 15, 9>>
RemoteA == <<10, 40, 16, 1>>
RemoteB == <<93, 184, 216, 34>>
Addrs == {LocalA, LocalB, RemoteA, RemoteB}

\* LOCAL_CIDRS default "10.40.0.0/20"
local_cidrs == {[ip |-> <<10, 40, 0, 0>>, prefix |-> 20]}

IpToInt(ip) == ip[1] * 16777216 + ip[2] * 65536 + ip[3] * 256 + ip[4]

\* ipnetwork::IpNetwork::contains
NetContains_WholeOctets(net, ip) ==
    LET span == 2 ^ (32 - 8 * (net.prefix \div 8))
    IN  IpToInt(ip) \div span = IpToInt(net.ip) \div span

NetContains(net, ip) ==
    LET span == 2 ^ (32 - net.prefix)
    IN  IpToInt(ip) \div span = IpToInt(net.ip) \div span

is_local_ip(ip) == \E net \in local_cidrs : NetContains(net, ip)

\* ---------------------------------------------------------- status source
Labels == {"eth0", "eth1", "unknown"}
Keys == Addrs \X Labels

DocA ==
    [config |-> [lan |-> "eth2", wan0 |-> "eth0", wan1 |-> "eth1"],
     mappings |-> (LocalA :> "wan1") @@ (LocalB :> "wan0")]
DocB ==
    [config |-> [lan |-> "eth2", wan0 |-> "eth1", wan1 |-> "eth0"],
     mappings |-> (LocalB :> "wan2")]
DocNoWan1 ==
    [config |-> [lan |-> "eth2", wan0 |-> "eth1"],
     mappings |-> (LocalA :> "wan0")]

GoodDocs == {DocA, DocB}
BadDocs == {DocNoWan1}

\* What reqwest::get(...).await followed by response.json().await can yield.
Responses ==
    {[kind |-> "transport_error"], [kind |-> "malformed_body"]}
        \cup {[kind |-> "json", doc |-> d] : d \in GoodDocs \cup BadDocs}

\* serde's derived Deserialize for StatusResponse: every field is required.
\* The result is <<status>> on success and <<>> on error.
ParseStatus_Lenient(resp) ==
    IF resp.kind # "json" THEN <<>>
    ELSE <<[config |->
               [wan0 |-> IF "config" \in DOMAIN resp.doc
                            /\ "wan0" \in DOMAIN resp.doc.config
                         THEN resp.doc.config.wan0 ELSE "eth0",
                wan1 |-> IF "config" \in DOMAIN resp.doc
                            /\ "wan1" \in DOMAIN resp.doc.config
                         THEN resp.doc.config.wan1 ELSE "eth1"],
            mappings |-> IF "mappings" \in DOMAIN resp.doc
                         THEN resp.doc.mappings ELSE <<>>]>>

ParseStatus(resp) ==
    IF /\ resp.kind = "json"
       /\ {"config", "mappings"} \subseteq DOMAIN resp.doc
       /\ {"lan", "wan0", "wan1"} \subseteq DOMAIN resp.doc.config
    THEN <<[config |-> [wan0 |-> resp.doc.config.wan0,
                        wan1 |-> resp.doc.config.wan1],
            mappings |-> resp.doc.mappings]>>
    ELSE <<>>

\* ------------------------------------------------------------------ frames
IpFrame(s, d, n) == [kind |-> "ip", src |-> s, dst |-> d, len |-> n]
IpFrames ==
    {IpFrame(p[1], p[2], n) :
        p \in {<<LocalA, RemoteA>>, <<RemoteA, LocalA>>,
                <<LocalB, RemoteA>>, <<RemoteA, LocalB>>,
                <<LocalA, LocalB>>, <<RemoteA, RemoteB>>},
        n \in 1..MaxLen}
DroppedFrames ==
    {[kind |-> k] : k \in {"truncated", "other_ethertype", "bad_ip"}}
Frames == IpFrames \cup DroppedFrames
NoFrame == [kind |-> "none"]
NoIface == ""
NoWan == <<"none">>

VARIABLES
    mainPc,                 \* main: "initial_fetch" | "serving"
    status,                 \* self.status: <<>> (None) or <<StatusResponse>>
    capPc,                  \* capture task
    capFrame,               \* frame the capture task holds
    capIface,               \* record_packet: the resolved interface
    window_download_bytes,  \* DashMap<(remote, iface), u64>
    window_upload_bytes,
    known_metrics,          \* keys of DashMap<(remote, iface), ()>
    download_bytes_gauge,   \* label values -> gauge value
    upload_bytes_gauge,
    pubPc,                  \* publisher task
    pubShard,               \* shard the publisher's current walk is at
    current_download_keys,  \* locals of publish_bytes_and_reset
    current_upload_keys,
    unpublished,            \* history: bytes recorded and not yet published
    winBytes,               \* history: bytes recorded since the counter's reset
    lastWin,                \* history: bytes recorded in the last closed window
    appeared,               \* history: keys some finished tick found in a window
    nFrames,                \* history: frames that reached a counter
    quiet,                  \* history: ticks run without any record_packet
    lastFetch,              \* history: how the latest fetch_status ended
    statusLock,             \* the RwLock of self.status: "free" | "read" | "write"
    rdWan,                  \* get_interface_for_ip: result of mappings.get
    fetchPc,                \* refresher task, step by step
    fetchNew,               \* fetch_status: the parsed document to store
    rdAt,                   \* history: self.status when the read lock was taken
    prevStatus,             \* history: self.status before the latest store
    nReceived,              \* history: frames received that reach a counter
    thrPc,                  \* throughput-dump: the update task
    rtt_resp,               \* answers to the three queries of the cycle
    download_resp,
    upload_resp,
    pairsLeft,              \* keys of rtt_map the loop has not visited yet
    interface_totals,       \* local of calculate_throughput
    totalsLeft,             \* interfaces the second loop has not visited yet
    THROUGHPUT_GAUGES,      \* HashMap<MetricKey, Gauge>: key -> gauge value
    THROUGHPUT_TOTAL_GAUGES,\* HashMap<String, Gauge>
    REGISTRY,               \* descriptors registered with the Registry
    lastCycle,              \* history: how the latest cycle ended
    icmpPc,                 \* icmp-traffic-scan: main's loop
    json,                   \* fetch_prometheus_metrics: the answer it parsed
    metrics_list,           \* Vec<RemoteIpMetric> of the cycle
    handles,                \* the probe tasks of the cycle: index -> state
    rtt_gauge,              \* label values -> rtt_icmp_dump value
    tcpPc,                  \* tcp-traffic-scan: main
    args,                   \* Args: interface and server lists
    running,                \* the AtomicBool the Ctrl+C handler clears
    handlerSet,             \* ctrlc::set_handler succeeded
    interfaceIdx,           \* position of `for interface in &args.interface`
    serverIdx,              \* position of `for server_str in &args.server`
    results,                \* Vec<String> of the interface in progress
    measured                \* history: a measurement has been attempted

thrVars ==
    <<thrPc, rtt_resp, download_resp, upload_resp, pairsLeft,
      interface_totals, totalsLeft, THROUGHPUT_GAUGES,
      THROUGHPUT_TOTAL_GAUGES, REGISTRY, lastCycle>>
icmpVars == <<icmpPc, json, metrics_list, handles, rtt_gauge>>
tcpVars ==
    <<tcpPc, args, running, handlerSet, interfaceIdx, serverIdx, results,
      measured>>
toolVars == <<thrVars, icmpVars, tcpVars>>

dumpVars ==
    <<mainPc, status, capPc, capFrame, capIface,
      window_download_bytes, window_upload_bytes, known_metrics,
      download_bytes_gauge, upload_bytes_gauge,
      pubPc, pubShard, current_download_keys, current_upload_keys,
      unpublished, winBytes, lastWin, appeared, nFrames,
      quiet, lastFetch,
      statusLock, rdWan, fetchPc, fetchNew, rdAt, prevStatus, nReceived>>
vars == <<dumpVars, toolVars>>

fetchVars == <<mainPc, status>>
capVars == <<capPc, capFrame, capIface>>
windowVars == <<window_download_bytes, window_upload_bytes>>
gaugeVars == <<download_bytes_gauge, upload_bytes_gauge>>
pubVars == <<pubPc, pubShard, current_download_keys, current_upload_keys>>
histVars == <<unpublished, winBytes, lastWin, appeared, nFrames>>
lockVars == <<statusLock, rdWan, fetchPc, fetchNew, rdAt, prevStatus>>

EmptyMap == <<>>

\* The history variables are tallies: functions from (direction, key) slots to
\* byte counts that hold only the slots whose count is not 0.
Dirs == {"download", "upload"}
Slots == Dirs \X Keys
Val(tally, slot) == IF slot \in DOMAIN tally THEN tally[slot] ELSE 0
Tally(f) == [slot \in {x \in Slots : f[x] # 0} |-> f[slot]]

\* ----------------------------------------------------------------- helpers
\* The shard a key hashes to.
ShardOf(key) == (key[1][4] + Len(key[2])) % NumShards

InShard(keys, i) == {k \in keys : ShardOf(k) = i}

\* map.entry(key).and_modify(|v| *v += bytes).or_insert(bytes)
EntryAddOrInsert_Overwrite(map, key, bytes) ==
    IF key \in DOMAIN map THEN [map EXCEPT ![key] = bytes]
    ELSE (key :> bytes) @@ map

EntryAddOrInsert(map, key, bytes) ==
    IF key \in DOMAIN map THEN [map EXCEPT ![key] = @ + bytes]
    ELSE (key :> bytes) @@ map

\* gauge.with_label_values(..).set(vals[k]) for every key k of vals
SetGauges(gauge, vals) ==
    [k \in DOMAIN gauge \cup DOMAIN vals |->
        IF k \in DOMAIN vals THEN vals[k] ELSE gauge[k]]

\* self.known_metrics.insert(key, ())
KnownInsert_Replace(known, key) == {key}

KnownInsert(known, key) == known \cup {key}

\* one shard of DashMap::clear
ClearShard_Keep(map, i) == map

ClearShard(map, i) == [k \in DOMAIN map \ InShard(DOMAIN map, i) |-> map[k]]

\* get_interface_for_ip, given the value read under the read lock
get_interface_for_ip_Wan0Only(st, local_ip) ==
    IF st # <<>> THEN st[1].config.wan0 ELSE "unknown"

get_interface_for_ip(st, local_ip) ==
    IF st # <<>> THEN
        IF local_ip \in DOMAIN st[1].mappings
           /\ st[1].mappings[local_ip] = "wan1"
        THEN st[1].config.wan1
        ELSE st[1].config.wan0
    ELSE "unknown"

\* the match of record_packet on (src_is_local, dst_is_local)
Direction_Swapped(src, dst) ==
    CASE ~is_local_ip(src) /\ is_local_ip(dst) -> "upload"
      [] is_local_ip(src) /\ ~is_local_ip(dst) -> "download"
      [] OTHER -> "ignored"

Direction(src, dst) ==
    CASE ~is_local_ip(src) /\ is_local_ip(dst) -> "download"
      [] is_local_ip(src) /\ ~is_local_ip(dst) -> "upload"
      [] OTHER -> "ignored"

RemoteOf_Source(frame) == frame.src

RemoteOf(frame) ==
    IF Direction(frame.src, frame.dst) = "download" THEN frame.src ELSE frame.dst
LocalOf(frame) ==
    IF Direction(frame.src, frame.dst) = "download" THEN frame.dst ELSE frame.src

\* ------------------------------------------------------- optional histories
\* Two histories are kept only by the specifications that ask for them in
\* their initial state; elsewhere they stay at their "off" value.

\* quiet.done: how many ticks in a row (counted up to two) have run from start
\* to end with no step of a record_packet call since the first of them
\* started. quiet.clean: no step of a record_packet call has run since the
\* tick in progress started.
QuietOff == [on |-> FALSE, done |-> 0, clean |-> FALSE]
QuietOn == [on |-> TRUE, done |-> 0, clean |-> FALSE]
QuietBroken == IF quiet.on THEN QuietOn ELSE quiet
QuietTickStarts == IF quiet.on THEN [quiet EXCEPT !.clean = TRUE] ELSE quiet
QuietTickEnds ==
    IF quiet.on
    THEN [quiet EXCEPT !.done = IF ~quiet.clean THEN 0
                                ELSE IF quiet.done < 2 THEN quiet.done + 1
                                ELSE 2,
                       !.clean = FALSE]
    ELSE quiet

\* The responses that are a failed refresh: no answer, a body that is not
\* JSON, a document without one of the required fields.
Failed(resp) ==
    \/ resp.kind \in {"transport_error", "malformed_body"}
    \/ resp.kind = "json" /\ resp.doc \in BadDocs

\* prevStatus.st: self.status before the latest store, where it is kept.
PrevOff == [on |-> FALSE, st |-> <<>>]
PrevOn == [on |-> TRUE, st |-> <<>>]

NoteFetch(resp) ==
    IF lastFetch = "off" THEN lastFetch
    ELSE IF Failed(resp) THEN "failed" ELSE "ok"

\* The answer to one instant query, as query_prometheus sees it.
Unasked == [answer |-> "unasked", status |-> "", result |-> <<>>]

\* throughput-dump is not running.
ThrOff ==
    /\ thrPc = "off"
    /\ rtt_resp = Unasked
    /\ download_resp = Unasked
    /\ upload_resp = Unasked
    /\ pairsLeft = {}
    /\ interface_totals = EmptyMap
    /\ totalsLeft = {}
    /\ THROUGHPUT_GAUGES = EmptyMap
    /\ THROUGHPUT_TOTAL_GAUGES = EmptyMap
    /\ REGISTRY = {}
    /\ lastCycle = "none"

\* icmp-traffic-scan is not running.
NoJson == [answer |-> "unasked", result |-> <<>>]
IcmpOff ==
    /\ icmpPc = "off"
    /\ json = NoJson
    /\ metrics_list = <<>>
    /\ handles = <<>>
    /\ rtt_gauge = EmptyMap

\* tcp-traffic-scan is not running.
NoArgs == [interface |-> <<>>, server |-> <<>>]
TcpOff ==
    /\ tcpPc = "off"
    /\ args = NoArgs
    /\ running = TRUE
    /\ handlerSet = FALSE
    /\ interfaceIdx = 0
    /\ serverIdx = 0
    /\ results = <<>>
    /\ measured = FALSE

ToolsOff == ThrOff /\ IcmpOff /\ TcpOff

\* --------------------------------------------------------------------- Init
\* The state when main calls TrafficMetrics::new.
InitProgram ==
    /\ mainPc = "new"
    /\ status = <<>>
    /\ capPc = "unspawned"
    /\ capFrame = NoFrame
    /\ capIface = NoIface
    /\ window_download_bytes = EmptyMap
    /\ window_upload_bytes = EmptyMap
    /\ known_metrics = {}
    /\ download_bytes_gauge = EmptyMap
    /\ upload_bytes_gauge = EmptyMap
    /\ pubPc = "idle"
    /\ pubShard = 0
    /\ current_download_keys = {}
    /\ current_upload_keys = {}
    /\ unpublished = EmptyMap
    /\ winBytes = EmptyMap
    /\ lastWin = EmptyMap
    /\ appeared = {}
    /\ nFrames = 0
    /\ statusLock = "free"
    /\ rdWan = NoWan
    /\ fetchPc = "idle"
    /\ fetchNew = <<>>
    /\ rdAt = <<>>
    /\ nReceived = 0

DumpStart ==
    InitProgram /\ quiet = QuietOff /\ lastFetch = "off" /\ prevStatus = PrevOff

Init == DumpStart /\ ToolsOff

\* ---------------------------------------------------- TrafficMetrics::new
\* IntGaugeVec::new(..).expect(..) and registry.register(..).expect(..): a
\* failure panics in main before anything is spawned.
RegisterOutcomes == {"registered", "create_failed", "register_failed"}

New_Continue(outcome) ==
    /\ mainPc = "new"
    /\ mainPc' = "initial_fetch"
    /\ UNCHANGED <<quiet, lastFetch>>
    /\ UNCHANGED <<status, capVars, windowVars, known_metrics, gaugeVars,
                   pubVars, histVars>>
    /\ UNCHANGED <<lockVars, nReceived, toolVars>>

New(outcome) ==
    /\ mainPc = "new"
    /\ mainPc' = IF outcome = "registered" THEN "initial_fetch" ELSE "aborted"
    /\ UNCHANGED <<quiet, lastFetch>>
    /\ UNCHANGED <<status, capVars, windowVars, known_metrics, gaugeVars,
                   pubVars, histVars>>
    /\ UNCHANGED <<lockVars, nReceived, toolVars>>

\* ------------------------------------------------------------ fetch_status
\* The value of self.status after fetch_status got resp.
StoreStatus_Merge(old, new) ==
    IF old = <<>> THEN new
    ELSE <<[config |-> new[1].config,
            mappings |-> new[1].mappings @@ old[1].mappings]>>

\* *self.status.write().await = Some(status)
StoreStatus(old, new) == new

fetch_status_ClearOnFailure(st, resp) == ParseStatus(resp)

fetch_status(st, resp) ==
    IF ParseStatus(resp) # <<>> THEN StoreStatus(st, ParseStatus(resp)) ELSE st

\* main: metrics.fetch_status().await, then the three tasks are spawned.
InitialFetch(resp) ==
    /\ mainPc = "initial_fetch"
    /\ status' = fetch_status(status, resp)
    /\ mainPc' = "serving"
    /\ capPc' = "searching"
    /\ lastFetch' = NoteFetch(resp)
    /\ UNCHANGED quiet
    /\ UNCHANGED <<capFrame, capIface, windowVars, known_metrics,
                   gaugeVars, pubVars, histVars>>
    /\ UNCHANGED <<lockVars, nReceived, toolVars>>

\* refresher task: a fetch_status issued after interval.tick().await returns.
\* The request holds no lock and reads no field while it is in flight; the one
\* step that touches the program's state is the write of self.status.
Refresh(resp) ==
    /\ mainPc = "serving"
    /\ status' = fetch_status(status, resp)
    /\ lastFetch' = NoteFetch(resp)
    /\ UNCHANGED quiet
    /\ UNCHANGED <<mainPc, capVars, windowVars, known_metrics,
                   gaugeVars, pubVars, histVars>>
    /\ UNCHANGED <<lockVars, nReceived, toolVars>>

\* ------------------------------------------------------- monitor_interface
SearchOutcomes == {"opened", "not_found", "unsupported_channel", "channel_error"}

\* get_interface_by_name and datalink::channel
CapSearch ==
    /\ capPc = "searching"
    /\ \E outcome \in SearchOutcomes :
          capPc' = IF outcome = "opened" THEN "capturing" ELSE "sleeping"
    /\ UNCHANGED <<quiet, lastFetch>>
    /\ UNCHANGED <<fetchVars, capFrame, capIface, windowVars, known_metrics,
                   gaugeVars, pubVars, histVars>>
    /\ UNCHANGED <<lockVars, nReceived, toolVars>>

\* tokio::time::sleep(5 s) is over
CapWake ==
    /\ capPc = "sleeping"
    /\ capPc' = "searching"
    /\ UNCHANGED <<quiet, lastFetch>>
    /\ UNCHANGED <<fetchVars, capFrame, capIface, windowVars, known_metrics,
                   gaugeVars, pubVars, histVars>>
    /\ UNCHANGED <<lockVars, nReceived, toolVars>>

Countable(frame) ==
    frame.kind = "ip" /\ Direction(frame.src, frame.dst) # "ignored"

\* rx.next() returns Ok(packet)
CapReceive_Eager ==
    /\ capPc \in {"capturing", "count", "known"}
    /\ \E frame \in Frames :
          /\ Countable(frame) => nFrames < MaxFrames
          /\ capFrame' = frame
          /\ nReceived' = IF Countable(frame) THEN nReceived + 1 ELSE nReceived
    /\ capPc' = "received"
    /\ UNCHANGED <<quiet, lastFetch>>
    /\ UNCHANGED <<fetchVars, capIface, windowVars, known_metrics,
                   gaugeVars, pubVars, histVars>>
    /\ UNCHANGED <<lockVars, toolVars>>

CapReceive ==
    /\ capPc = "capturing"
    /\ \E frame \in Frames :
          /\ Countable(frame) => nFrames < MaxFrames
          /\ capFrame' = frame
          /\ nReceived' = IF Countable(frame) THEN nReceived + 1 ELSE nReceived
    /\ capPc' = "received"
    /\ UNCHANGED <<quiet, lastFetch>>
    /\ UNCHANGED <<fetchVars, capIface, windowVars, known_metrics,
                   gaugeVars, pubVars, histVars>>
    /\ UNCHANGED <<lockVars, toolVars>>

\* rx.next() returns Err: break out of the receive loop
CapRecvError_Exit ==
    /\ capPc = "capturing"
    /\ capPc' = "exited"
    /\ UNCHANGED <<quiet, lastFetch>>
    /\ UNCHANGED <<fetchVars, capFrame, capIface, windowVars, known_metrics,
                   gaugeVars, pubVars, histVars>>
    /\ UNCHANGED <<lockVars, nReceived, toolVars>>

CapRecvError ==
    /\ capPc = "capturing"
    /\ capPc' = "searching"
    /\ UNCHANGED <<quiet, lastFetch>>
    /\ UNCHANGED <<fetchVars, capFrame, capIface, windowVars, known_metrics,
                   gaugeVars, pubVars, histVars>>
    /\ UNCHANGED <<lockVars, nReceived, toolVars>>

\* EthernetPacket::new / get_ethertype / Ipv4Packet::new reject the frame
CapDrop_Break ==
    /\ capPc = "received"
    /\ capFrame.kind # "ip"
    /\ capPc' = "searching"
    /\ capFrame' = NoFrame
    /\ UNCHANGED <<quiet, lastFetch>>
    /\ UNCHANGED <<fetchVars, capIface, windowVars, known_metrics,
                   gaugeVars, pubVars, histVars>>
    /\ UNCHANGED <<lockVars, nReceived, toolVars>>

CapDrop ==
    /\ capPc = "received"
    /\ capFrame.kind # "ip"
    /\ capPc' = "capturing"
    /\ capFrame' = NoFrame
    /\ UNCHANGED <<quiet, lastFetch>>
    /\ UNCHANGED <<fetchVars, capIface, windowVars, known_metrics,
                   gaugeVars, pubVars, histVars>>
    /\ UNCHANGED <<lockVars, nReceived, toolVars>>

\* record_packet, the arm `_ => {}`
RecordIgnore ==
    /\ capPc = "received"
    /\ capFrame.kind = "ip"
    /\ Direction(capFrame.src, capFrame.dst) = "ignored"
    /\ capPc' = "capturing"
    /\ capFrame' = NoFrame
    /\ quiet' = QuietBroken
    /\ UNCHANGED lastFetch
    /\ UNCHANGED <<fetchVars, capIface, windowVars, known_metrics,
                   gaugeVars, pubVars, histVars>>
    /\ UNCHANGED <<lockVars, nReceived, toolVars>>

\* record_packet: self.get_interface_for_ip(local).await
RecordResolve ==
    /\ capPc = "received"
    /\ capFrame.kind = "ip"
    /\ Direction(capFrame.src, capFrame.dst) # "ignored"
    /\ capIface' = get_interface_for_ip(status, LocalOf(capFrame))
    /\ capPc' = "count"
    /\ quiet' = QuietBroken
    /\ UNCHANGED lastFetch
    /\ UNCHANGED <<fetchVars, capFrame, windowVars, known_metrics,
                   gaugeVars, pubVars, histVars>>
    /\ UNCHANGED <<lockVars, nReceived, toolVars>>

CapKey == <<RemoteOf(capFrame), capIface>>
CapDir == Direction(capFrame.src, capFrame.dst)

\* record_packet: the entry(..).and_modify(..).or_insert(..) of the window map
RecordCount ==
    /\ capPc = "count"
    /\ IF CapDir = "download"
       THEN /\ window_download_bytes' =
                   EntryAddOrInsert(window_download_bytes, CapKey, capFrame.len)
            /\ UNCHANGED window_upload_bytes
       ELSE /\ window_upload_bytes' =
                   EntryAddOrInsert(window_upload_bytes, CapKey, capFrame.len)
            /\ UNCHANGED window_download_bytes
    /\ LET add(tally, x) ==
               Val(tally, x) + IF x = <<CapDir, CapKey>> THEN capFrame.len ELSE 0
           unp(x) == add(unpublished, x)
           win(x) == add(winBytes, x)
       IN  unpublished' = Tally([x \in Slots |-> unp(x)])
           /\ winBytes' = Tally([x \in Slots |-> win(x)])
    /\ nFrames' = nFrames + 1
    /\ capPc' = "known"
    /\ quiet' = QuietBroken
    /\ UNCHANGED lastFetch
    /\ UNCHANGED <<fetchVars, capFrame, capIface, known_metrics,
                   gaugeVars, pubVars, lastWin, appeared>>
    /\ UNCHANGED <<lockVars, nReceived, toolVars>>

\* record_packet: self.known_metrics.insert(key, ())
RecordKnown ==
    /\ capPc = "known"
    /\ known_metrics' = KnownInsert(known_metrics, CapKey)
    /\ capPc' = "capturing"
    /\ capFrame' = NoFrame
    /\ capIface' = NoIface
    /\ quiet' = QuietBroken
    /\ UNCHANGED lastFetch
    /\ UNCHANGED <<fetchVars, windowVars, gaugeVars, pubVars,
                   histVars>>
    /\ UNCHANGED <<lockVars, nReceived, toolVars>>

\* ------------------------------------------------- publish_bytes_and_reset
NextWalk(i, nextPc) ==
    IF i + 1 < NumShards
    THEN pubShard' = i + 1 /\ pubPc' = pubPc
    ELSE pubShard' = 0 /\ pubPc' = nextPc

\* history: the counters of shard i of direction dir are reset, which closes
\* the window of every key of that shard
CloseWindow(dir, i) ==
    LET closed(x) == x[1] = dir /\ ShardOf(x[2]) = i
        last(x) == IF closed(x) THEN Val(winBytes, x) ELSE Val(lastWin, x)
        win(x) == IF closed(x) THEN 0 ELSE Val(winBytes, x)
    IN  lastWin' = Tally([x \in Slots |-> last(x)])
        /\ winBytes' = Tally([x \in Slots |-> win(x)])

\* publisher task: interval.tick().await returns, the two HashSets are made
PubStart ==
    /\ mainPc = "serving"
    /\ pubPc = "idle"
    /\ pubPc' = "download"
    /\ pubShard' = 0
    /\ current_download_keys' = {}
    /\ current_upload_keys' = {}
    /\ quiet' = QuietTickStarts
    /\ UNCHANGED lastFetch
    /\ UNCHANGED <<fetchVars, capVars, windowVars, known_metrics, gaugeVars,
                   histVars>>
    /\ UNCHANGED <<lockVars, nReceived, toolVars>>

\* one shard of `for entry in self.window_download_bytes.iter()`
PubDownload ==
    /\ pubPc = "download"
    /\ LET ks == InShard(DOMAIN window_download_bytes, pubShard)
           vals == [k \in ks |-> window_download_bytes[k]]
       IN  /\ download_bytes_gauge' = SetGauges(download_bytes_gauge, vals)
           /\ current_download_keys' = current_download_keys \cup ks
           /\ unpublished' = Tally([x \in Slots |-> Val(unpublished, x) -
                 IF x[1] = "download" /\ x[2] \in ks THEN vals[x[2]] ELSE 0])
    /\ NextWalk(pubShard, "upload")
    /\ UNCHANGED <<quiet, lastFetch>>
    /\ UNCHANGED <<fetchVars, capVars, windowVars, known_metrics,
                   upload_bytes_gauge, current_upload_keys,
                   winBytes, lastWin, appeared, nFrames>>
    /\ UNCHANGED <<lockVars, nReceived, toolVars>>

\* one shard of `for entry in self.window_upload_bytes.iter()`
PubUpload ==
    /\ pubPc = "upload"
    /\ LET ks == InShard(DOMAIN window_upload_bytes, pubShard)
           vals == [k \in ks |-> window_upload_bytes[k]]
       IN  /\ upload_bytes_gauge' = SetGauges(upload_bytes_gauge, vals)
           /\ current_upload_keys' = current_upload_keys \cup ks
           /\ unpublished' = Tally([x \in Slots |-> Val(unpublished, x) -
                 IF x[1] = "upload" /\ x[2] \in ks THEN vals[x[2]] ELSE 0])
    /\ NextWalk(pubShard, "known")
    /\ UNCHANGED <<quiet, lastFetch>>
    /\ UNCHANGED <<fetchVars, capVars, windowVars, known_metrics,
                   download_bytes_gauge, current_download_keys,
                   winBytes, lastWin, appeared, nFrames>>
    /\ UNCHANGED <<lockVars, nReceived, toolVars>>

\* one shard of `for entry in self.known_metrics.iter()`
PubKnown ==
    /\ pubPc = "known"
    /\ LET ks == InShard(known_metrics, pubShard)
       IN  /\ download_bytes_gauge' =
                 SetGauges(download_bytes_gauge,
                           [k \in ks \ current_download_keys |-> 0])
           /\ upload_bytes_gauge' =
                 SetGauges(upload_bytes_gauge,
                           [k \in ks \ current_upload_keys |-> 0])
    /\ NextWalk(pubShard, "clear_download")
    /\ UNCHANGED <<quiet, lastFetch>>
    /\ UNCHANGED <<fetchVars, capVars, windowVars, known_metrics,
                   current_download_keys, current_upload_keys,
                   histVars>>
    /\ UNCHANGED <<lockVars, nReceived, toolVars>>

\* one shard of self.window_download_bytes.clear()
PubClearDownload ==
    /\ pubPc = "clear_download"
    /\ window_download_bytes' = ClearShard(window_download_bytes, pubShard)
    /\ CloseWindow("download", pubShard)
    /\ NextWalk(pubShard, "clear_upload")
    /\ UNCHANGED <<quiet, lastFetch>>
    /\ UNCHANGED <<fetchVars, capVars, window_upload_bytes, known_metrics,
                   gaugeVars, current_download_keys, current_upload_keys,
                   unpublished, appeared, nFrames>>
    /\ UNCHANGED <<lockVars, nReceived, toolVars>>

\* one shard of self.window_upload_bytes.clear(); the last one ends the tick
PubClearUpload ==
    /\ pubPc = "clear_upload"
    /\ window_upload_bytes' = ClearShard(window_upload_bytes, pubShard)
    /\ CloseWindow("upload", pubShard)
    /\ NextWalk(pubShard, "idle")
    /\ IF pubPc' = "idle"
       THEN /\ current_download_keys' = {}
            /\ current_upload_keys' = {}
            /\ appeared' =
                  appeared \cup current_download_keys \cup current_upload_keys
       ELSE UNCHANGED <<current_download_keys, current_upload_keys, appeared>>
    /\ quiet' = IF pubPc' = "idle" THEN QuietTickEnds ELSE quiet
    /\ UNCHANGED lastFetch
    /\ UNCHANGED <<fetchVars, capVars, window_download_bytes, known_metrics,
                   gaugeVars, unpublished, nFrames>>
    /\ UNCHANGED <<lockVars, nReceived, toolVars>>

\* ---------------------------------------------------------- encode_metrics
\* The body of a scrape: registry.gather() reads every child of both gauges.
encode_metrics ==
    [download |-> download_bytes_gauge, upload |-> upload_bytes_gauge]

\* metrics_handler: answers with encode_metrics and writes nothing
Scrape ==
    /\ mainPc = "serving"
    /\ UNCHANGED vars

Next ==
    \/ \E outcome \in RegisterOutcomes : New(outcome)
    \/ \E resp \in Responses : InitialFetch(resp)
    \/ \E resp \in Responses : Refresh(resp)
    \/ CapSearch
    \/ CapWake
    \/ CapReceive
    \/ CapRecvError
    \/ CapDrop
    \/ RecordIgnore
    \/ RecordResolve
    \/ RecordCount
    \/ RecordKnown
    \/ PubStart
    \/ PubDownload
    \/ PubUpload
    \/ PubKnown
    \/ PubClearDownload
    \/ PubClearUpload
    \/ Scrape

\* main and the tasks it spawns.
Spec == Init /\ [][Next]_vars

\* The same program, keeping the history of quiet ticks.
InitIdem ==
    /\ InitProgram /\ quiet = QuietOn /\ lastFetch = "off"
    /\ prevStatus = PrevOff /\ ToolsOff
SpecIdem == InitIdem /\ [][Next]_vars

\* The same program, keeping the outcome of the latest fetch.
InitFetch ==
    /\ InitProgram /\ quiet = QuietOff /\ lastFetch = "none"
    /\ prevStatus = PrevOff /\ ToolsOff
SpecFetch == InitFetch /\ [][Next]_vars

\* get_interface_for_ip on its own: record_packet is about to resolve the
\* interface of a frame, over every status a document of the status source
\* can load.
ResolveStatuses ==
    {<<>>} \cup
    {<<[config |-> [wan0 |-> w0, wan1 |-> w1], mappings |-> m]>> :
        w0 \in Labels, w1 \in Labels,
        m \in UNION {[d -> {"wan0", "wan1", "wan2"}] :
                        d \in SUBSET {LocalA, LocalB}}}

InitResolve ==
    /\ mainPc = "serving"
    /\ status \in ResolveStatuses
    /\ capPc = "received"
    /\ capFrame \in {f \in IpFrames : Direction(f.src, f.dst) # "ignored"}
    /\ capIface = NoIface
    /\ window_download_bytes = EmptyMap
    /\ window_upload_bytes = EmptyMap
    /\ known_metrics = {}
    /\ download_bytes_gauge = EmptyMap
    /\ upload_bytes_gauge = EmptyMap
    /\ pubPc = "idle"
    /\ pubShard = 0
    /\ current_download_keys = {}
    /\ current_upload_keys = {}
    /\ unpublished = EmptyMap
    /\ winBytes = EmptyMap
    /\ lastWin = EmptyMap
    /\ appeared = {}
    /\ nFrames = 0
    /\ quiet = QuietOff
    /\ lastFetch = "off"
    /\ statusLock = "free"
    /\ rdWan = NoWan
    /\ fetchPc = "idle"
    /\ fetchNew = <<>>
    /\ rdAt = <<>>
    /\ prevStatus = PrevOff
    /\ nReceived = 1
    /\ ToolsOff

NextResolve == RecordResolve

SpecResolve == InitResolve /\ [][NextResolve]_vars

\* ------------------------------------- self.status, one lock step at a time
\* The same fetch_status and get_interface_for_ip with every acquisition of
\* the tokio RwLock and every read under it as a step of its own.

\* RwLock::read and RwLock::write are granted
CanRead(lock) == lock # "write"

CanWrite_Unlocked(lock) == TRUE

CanWrite(lock) == lock = "free"

\* status.mappings.get(local_ip): <<>> is None
MappingsGet(st, ip) ==
    IF ip \in DOMAIN st[1].mappings THEN <<st[1].mappings[ip]>> ELSE <<>>

\* the match on wan_name and the fall through to wan0
LabelFor(st, wan_name) ==
    IF wan_name = <<"wan1">> THEN st[1].config.wan1 ELSE st[1].config.wan0

\* refresher task: interval.tick().await returns, reqwest::get is issued
FetchBegin ==
    /\ mainPc = "serving"
    /\ fetchPc = "idle"
    /\ fetchPc' = "requesting"
    /\ UNCHANGED <<statusLock, rdWan, fetchNew, rdAt, prevStatus, nReceived, toolVars>>
    /\ UNCHANGED <<quiet, lastFetch>>
    /\ UNCHANGED <<fetchVars, capVars, windowVars, known_metrics, gaugeVars,
                   pubVars, histVars>>

\* reqwest::get(..).await and response.json().await return
FetchRespond(resp) ==
    /\ fetchPc = "requesting"
    /\ fetchNew' = ParseStatus(resp)
    /\ fetchPc' = IF ParseStatus(resp) # <<>> THEN "store" ELSE "idle"
    /\ lastFetch' = NoteFetch(resp)
    /\ UNCHANGED <<statusLock, rdWan, rdAt, prevStatus, nReceived, toolVars>>
    /\ UNCHANGED quiet
    /\ UNCHANGED <<fetchVars, capVars, windowVars, known_metrics, gaugeVars,
                   pubVars, histVars>>

\* self.status.write().await is granted
FetchLock ==
    /\ fetchPc = "store"
    /\ CanWrite(statusLock)
    /\ statusLock' = "write"
    /\ fetchPc' = "locked"
    /\ UNCHANGED <<rdWan, fetchNew, rdAt, prevStatus, nReceived, toolVars>>
    /\ UNCHANGED <<quiet, lastFetch>>
    /\ UNCHANGED <<fetchVars, capVars, windowVars, known_metrics, gaugeVars,
                   pubVars, histVars>>

\* the assignment through the write guard, which is then dropped
FetchStore ==
    /\ fetchPc = "locked"
    /\ status' = StoreStatus(status, fetchNew)
    /\ statusLock' = "free"
    /\ fetchNew' = <<>>
    /\ fetchPc' = "idle"
    /\ prevStatus' = IF prevStatus.on THEN [prevStatus EXCEPT !.st = status]
                     ELSE prevStatus
    /\ UNCHANGED <<rdWan, rdAt, nReceived, toolVars>>
    /\ UNCHANGED <<quiet, lastFetch>>
    /\ UNCHANGED <<mainPc, capVars, windowVars, known_metrics, gaugeVars,
                   pubVars, histVars>>

\* get_interface_for_ip: self.status.read().await is granted
ResolveLock ==
    /\ capPc = "received"
    /\ capFrame.kind = "ip"
    /\ Direction(capFrame.src, capFrame.dst) # "ignored"
    /\ CanRead(statusLock)
    /\ statusLock' = "read"
    /\ rdAt' = status
    /\ capPc' = "resolve_locked"
    /\ UNCHANGED <<rdWan, fetchPc, fetchNew, prevStatus, nReceived, toolVars>>
    /\ UNCHANGED <<quiet, lastFetch>>
    /\ UNCHANGED <<fetchVars, capFrame, capIface, windowVars, known_metrics,
                   gaugeVars, pubVars, histVars>>

\* get_interface_for_ip: status_guard.as_ref() and status.mappings.get
ResolveLookup ==
    /\ capPc = "resolve_locked"
    /\ IF status = <<>>
       THEN /\ capIface' = "unknown"
            /\ statusLock' = "free"
            /\ capPc' = "count"
            /\ UNCHANGED rdWan
       ELSE /\ rdWan' = MappingsGet(status, LocalOf(capFrame))
            /\ capPc' = "resolve_label"
            /\ UNCHANGED <<capIface, statusLock>>
    /\ UNCHANGED <<fetchPc, fetchNew, rdAt, prevStatus, nReceived, toolVars>>
    /\ UNCHANGED <<quiet, lastFetch>>
    /\ UNCHANGED <<fetchVars, capFrame, windowVars, known_metrics,
                   gaugeVars, pubVars, histVars>>

\* get_interface_for_ip: status.config.wan0 / wan1 is cloned and returned
ResolveLabel ==
    /\ capPc = "resolve_label"
    /\ capIface' = LabelFor(status, rdWan)
    /\ rdWan' = NoWan
    /\ statusLock' = "free"
    /\ capPc' = "count"
    /\ UNCHANGED <<fetchPc, fetchNew, rdAt, prevStatus, nReceived, toolVars>>
    /\ UNCHANGED <<quiet, lastFetch>>
    /\ UNCHANGED <<fetchVars, capFrame, windowVars, known_metrics,
                   gaugeVars, pubVars, histVars>>

\* The steps that need nothing from outside the process to happen.
ProgramStep ==
    \/ \E outcome \in RegisterOutcomes : New(outcome)
    \/ CapSearch
    \/ CapWake
    \/ CapDrop
    \/ RecordIgnore
    \/ ResolveLock
    \/ ResolveLookup
    \/ ResolveLabel
    \/ RecordCount
    \/ RecordKnown
    \/ FetchBegin
    \/ FetchLock
    \/ FetchStore

NextRefresh ==
    \/ ProgramStep
    \/ \E resp \in Responses : InitialFetch(resp)
    \/ \E resp \in Responses : FetchRespond(resp)
    \/ CapReceive
    \/ CapRecvError

InitRefresh ==
    /\ InitProgram /\ quiet = QuietOff /\ lastFetch = "off"
    /\ prevStatus = PrevOn /\ ToolsOff

\* main, the capture task and the refresher; the answer of the status source
\* and the arrival of a frame are not in the program's hands.
SpecRefresh == InitRefresh /\ [][NextRefresh]_vars /\ WF_vars(ProgramStep)

\* ============================================================ throughput-dump
\* The throughput calculator: every second one cycle of calculate_throughput.
\* A throughput is an f64 quotient; it is kept here as the exact fraction
\* <<numerator, denominator>> in lowest terms (denominator 0: a division by
\* zero).
Abs(n) == IF n < 0 THEN -n ELSE n

RECURSIVE GCD(_, _)
GCD(a, b) == IF b = 0 THEN a ELSE GCD(b, a % b)

Reduce(n, d) ==
    IF d = 0 THEN <<n, 0>>
    ELSE LET g == GCD(Abs(n), Abs(d))
             sign == IF d < 0 THEN -1 ELSE 1
         IN  <<sign * (n \div g), sign * (d \div g)>>

FDiv(total_bytes, rtt) == Reduce(total_bytes, rtt)
FAdd(x, y) == Reduce(x[1] * y[2] + y[1] * x[2], x[2] * y[2])
FZero == <<0, 1>>

\* The (interface, remote_ip) pairs and the samples of the bounded runs.
ThrInterfaces == {"wan0", "wan1"}
PairA0 == [interface |-> "wan0", remote_ip |-> RemoteA]
PairB0 == [interface |-> "wan0", remote_ip |-> RemoteB]
PairA1 == [interface |-> "wan1", remote_ip |-> RemoteA]
MetricKeys == {PairA0, PairB0, PairA1}
DataTypes == {"download", "upload"}

\* rtt_icmp_dump carries the labels remote_ip, interface and data_type, so a
\* pair can have one series per data_type.
RttSeries(key, data_type, value) ==
    [metric |-> [interface |-> key.interface, remote_ip |-> key.remote_ip,
                 data_type |-> data_type],
     value |-> value]
ByteSeries(key, value) ==
    [metric |-> [interface |-> key.interface, remote_ip |-> key.remote_ip],
     value |-> value]
Unlabelled == [metric |-> [data_type |-> "download"], value |-> "2"]

RttSamples ==
    {RttSeries(k, "download", "2") : k \in MetricKeys}
    \cup {RttSeries(PairA0, dt, v) : dt \in DataTypes, v \in {"-2", "0", "2"}}
    \cup {RttSeries(PairA1, "download", "bad"), Unlabelled}

\* A query result holds each series once.
ResultsOf(samples, n) ==
    {r \in UNION {[1..m -> samples] : m \in 0..n} :
        \A i, j \in DOMAIN r : i # j => r[i].metric # r[j].metric}

RttResults == ResultsOf(RttSamples, MaxSeries)
DownloadResults == ResultsOf({ByteSeries(PairA0, "3")}, 1)
UploadResults ==
    ResultsOf({ByteSeries(PairA0, "3"), ByteSeries(PairB0, "3")}, 1)

SendFailed == [answer |-> "send_failed", status |-> "", result |-> <<>>]
NotJson == [answer |-> "not_json", status |-> "", result |-> <<>>]
Answers(choices) ==
    {SendFailed, NotJson}
    \cup {[answer |-> "json", status |-> st, result |-> r] :
            st \in {"success", "error"}, r \in choices}

\* query_prometheus: Ok(result) only for a parsed answer of status "success"
QueryOk_Always(resp) == TRUE

QueryOk(resp) == resp.answer = "json" /\ resp.status = "success"

\* result.value.1.parse().unwrap_or(0.0)
ParseF64(text) ==
    CASE text = "-2" -> -2
      [] text = "0" -> 0
      [] text = "2" -> 2
      [] text = "3" -> 3
      [] OTHER -> 0

MetricKeyOf(sample) ==
    [interface |-> sample.metric.interface, remote_ip |-> sample.metric.remote_ip]

MapInsert(map, key, value) ==
    [k \in DOMAIN map \cup {key} |-> IF k = key THEN value ELSE map[k]]

\* The three grouping loops: a sample without both labels is skipped, and
\* HashMap::insert on a key already present replaces its value.
RECURSIVE GroupSamples(_)
GroupSamples(series) ==
    IF series = <<>> THEN EmptyMap
    ELSE LET n == Len(series)
             grouped == GroupSamples(SubSeq(series, 1, n - 1))
             sample == series[n]
         IN  IF {"interface", "remote_ip"} \subseteq DOMAIN sample.metric
             THEN MapInsert(grouped, MetricKeyOf(sample), ParseF64(sample.value))
             ELSE grouped

rtt_map == GroupSamples(rtt_resp.result)
download_map == GroupSamples(download_resp.result)
upload_map == GroupSamples(upload_resp.result)

\* map.get(key).copied().unwrap_or(0.0)
GetOrZero(map, key) == IF key \in DOMAIN map THEN map[key] ELSE 0

\* if *rtt <= 0.0 { continue; }
SkipsPair_OnlyNegative(rtt) == rtt < 0

SkipsPair(rtt) == rtt <= 0

\* entry(key).or_insert_with: the closure runs only for a vacant entry
Occupied_Never(map, key) == FALSE

Occupied(map, key) == key \in DOMAIN map

\* The descriptor a gauge is registered under: its name and const labels.
PairDesc(key) == <<"throughputdump", key>>
TotalDesc(interface) == <<"throughputdump_total", interface>>

\* interval.tick() returns and calculate_throughput sends the first query
ThrTick ==
    /\ thrPc = "tick"
    /\ thrPc' = "query_rtt"
    /\ rtt_resp' = Unasked
    /\ download_resp' = Unasked
    /\ upload_resp' = Unasked
    /\ interface_totals' = EmptyMap
    /\ UNCHANGED <<pairsLeft, totalsLeft, THROUGHPUT_GAUGES,
                   THROUGHPUT_TOTAL_GAUGES, REGISTRY, lastCycle>>
    /\ UNCHANGED <<dumpVars, icmpVars, tcpVars>>

\* What the answer to a query leads to: the next query, or Err out of
\* calculate_throughput, which main logs before it waits for the next tick.
AfterQuery(resp, nextPc) ==
    IF QueryOk(resp)
    THEN thrPc' = nextPc /\ UNCHANGED lastCycle
    ELSE thrPc' = "tick" /\ lastCycle' = "err"

ThrQueryRtt(resp) ==
    /\ thrPc = "query_rtt"
    /\ rtt_resp' = resp
    /\ AfterQuery(resp, "query_download")
    /\ UNCHANGED <<download_resp, upload_resp, pairsLeft, interface_totals,
                   totalsLeft, THROUGHPUT_GAUGES, THROUGHPUT_TOTAL_GAUGES,
                   REGISTRY>>
    /\ UNCHANGED <<dumpVars, icmpVars, tcpVars>>

ThrQueryDownload(resp) ==
    /\ thrPc = "query_download"
    /\ download_resp' = resp
    /\ AfterQuery(resp, "query_upload")
    /\ UNCHANGED <<rtt_resp, upload_resp, pairsLeft, interface_totals,
                   totalsLeft, THROUGHPUT_GAUGES, THROUGHPUT_TOTAL_GAUGES,
                   REGISTRY>>
    /\ UNCHANGED <<dumpVars, icmpVars, tcpVars>>

\* the third answer; on Ok the maps are grouped and the pair loop begins
ThrQueryUpload(resp) ==
    /\ thrPc = "query_upload"
    /\ upload_resp' = resp
    /\ AfterQuery(resp, "pairs")
    /\ pairsLeft' = IF QueryOk(resp) THEN DOMAIN rtt_map ELSE pairsLeft
    /\ UNCHANGED <<rtt_resp, download_resp, interface_totals,
                   totalsLeft, THROUGHPUT_GAUGES, THROUGHPUT_TOTAL_GAUGES,
                   REGISTRY>>
    /\ UNCHANGED <<dumpVars, icmpVars, tcpVars>>

\* One iteration of `for (key, rtt) in &rtt_map`, in the HashMap's order.
ThrPair(key) ==
    /\ thrPc = "pairs"
    /\ key \in pairsLeft
    /\ LET rtt == rtt_map[key]
           download == GetOrZero(download_map, key)
           upload == GetOrZero(upload_map, key)
           throughput == FDiv(download + upload, rtt)
           interface == key.interface
       IN  IF SkipsPair(rtt)
           THEN /\ pairsLeft' = pairsLeft \ {key}
                /\ UNCHANGED <<thrPc, THROUGHPUT_GAUGES, REGISTRY,
                               interface_totals>>
           ELSE IF ~Occupied(THROUGHPUT_GAUGES, key) /\ PairDesc(key) \in REGISTRY
           THEN \* REGISTRY.register(..).unwrap() panics: the task is gone
                /\ thrPc' = "panicked"
                /\ UNCHANGED <<pairsLeft, THROUGHPUT_GAUGES, REGISTRY,
                               interface_totals>>
           ELSE /\ REGISTRY' = REGISTRY \cup {PairDesc(key)}
                /\ THROUGHPUT_GAUGES' =
                       MapInsert(THROUGHPUT_GAUGES, key, throughput)
                /\ interface_totals' =
                       MapInsert(interface_totals, interface,
                                 FAdd(IF interface \in DOMAIN interface_totals
                                      THEN interface_totals[interface]
                                      ELSE FZero,
                                      throughput))
                /\ pairsLeft' = pairsLeft \ {key}
                /\ UNCHANGED thrPc
    /\ UNCHANGED <<rtt_resp, download_resp, upload_resp, totalsLeft,
                   THROUGHPUT_TOTAL_GAUGES, lastCycle>>
    /\ UNCHANGED <<dumpVars, icmpVars, tcpVars>>

\* the pair loop is over: THROUGHPUT_TOTAL_GAUGES is locked
ThrPairsDone ==
    /\ thrPc = "pairs"
    /\ pairsLeft = {}
    /\ thrPc' = "totals"
    /\ totalsLeft' = DOMAIN interface_totals
    /\ UNCHANGED <<rtt_resp, download_resp, upload_resp, pairsLeft,
                   interface_totals, THROUGHPUT_GAUGES,
                   THROUGHPUT_TOTAL_GAUGES, REGISTRY, lastCycle>>
    /\ UNCHANGED <<dumpVars, icmpVars, tcpVars>>

\* One iteration of `for (interface, total_throughput) in &interface_totals`.
ThrTotal(interface) ==
    /\ thrPc = "totals"
    /\ interface \in totalsLeft
    /\ IF ~Occupied(THROUGHPUT_TOTAL_GAUGES, interface)
          /\ TotalDesc(interface) \in REGISTRY
       THEN /\ thrPc' = "panicked"
            /\ UNCHANGED <<totalsLeft, THROUGHPUT_TOTAL_GAUGES, REGISTRY>>
       ELSE /\ REGISTRY' = REGISTRY \cup {TotalDesc(interface)}
            /\ THROUGHPUT_TOTAL_GAUGES' =
                   MapInsert(THROUGHPUT_TOTAL_GAUGES, interface,
                             interface_totals[interface])
            /\ totalsLeft' = totalsLeft \ {interface}
            /\ UNCHANGED thrPc
    /\ UNCHANGED <<rtt_resp, download_resp, upload_resp, pairsLeft,
                   interface_totals, THROUGHPUT_GAUGES, lastCycle>>
    /\ UNCHANGED <<dumpVars, icmpVars, tcpVars>>

\* Ok(()) out of calculate_throughput
ThrCycleDone ==
    /\ thrPc = "totals"
    /\ totalsLeft = {}
    /\ thrPc' = "tick"
    /\ lastCycle' = "ok"
    /\ UNCHANGED <<rtt_resp, download_resp, upload_resp, pairsLeft,
                   interface_totals, totalsLeft, THROUGHPUT_GAUGES,
                   THROUGHPUT_TOTAL_GAUGES, REGISTRY>>
    /\ UNCHANGED <<dumpVars, icmpVars, tcpVars>>

NextThroughput ==
    \/ ThrTick
    \/ \E resp \in Answers(RttResults) : ThrQueryRtt(resp)
    \/ \E resp \in Answers(DownloadResults) : ThrQueryDownload(resp)
    \/ \E resp \in Answers(UploadResults) : ThrQueryUpload(resp)
    \/ \E key \in MetricKeys : ThrPair(key)
    \/ ThrPairsDone
    \/ \E interface \in ThrInterfaces : ThrTotal(interface)
    \/ ThrCycleDone

\* main has spawned the update task; the other programs are not running.
InitThroughput ==
    /\ DumpStart
    /\ thrPc = "tick"
    /\ rtt_resp = Unasked
    /\ download_resp = Unasked
    /\ upload_resp = Unasked
    /\ pairsLeft = {}
    /\ interface_totals = EmptyMap
    /\ totalsLeft = {}
    /\ THROUGHPUT_GAUGES = EmptyMap
    /\ THROUGHPUT_TOTAL_GAUGES = EmptyMap
    /\ REGISTRY = {}
    /\ lastCycle = "none"
    /\ IcmpOff
    /\ TcpOff

SpecThroughput == InitThroughput /\ [][NextThroughput]_vars

\* ========================================================== icmp-traffic-scan
\* The RTT prober: fetch the byte gauges, ping every peer that moved more
\* than MinBytes, publish the round-trip times, sleep a second, repeat.

\* One element of data.result: a series with its labels and its
\* [timestamp, "value"] array, or something of another shape.
Series(name, labels, value) ==
    [shape |-> "series", metric |-> ("__name__" :> name) @@ labels,
     value |-> value]
OtherShape ==
    [shape |-> "other", metric |-> ("__name__" :> "download_bytes"),
     value |-> <<>>]
PeerLabels(ip, interface) == ("remote_ip" :> ip) @@ ("interface" :> interface)

\* Label values are text.
PeerA == "10.40.16.1"
PeerB == "93.184.216.34"

IcmpItems ==
    {Series(name, PeerLabels(PeerA, "wan0"), <<0, text>>) :
        name \in {"download_bytes", "upload_bytes"}, text \in {"100", "101"}}
    \cup {Series("download_bytes", PeerLabels(PeerB, "wan0"), <<0, "250">>),
          Series("process_cpu_seconds", PeerLabels(PeerA, "wan0"), <<0, "101">>),
          Series("download_bytes", "job" :> "localpacketdump-rs", <<0, "101">>),
          Series("upload_bytes", PeerLabels(PeerB, "wan0"), <<0>>),
          OtherShape}

\* What client.get(..).send() and response.json() can end in.
IcmpAnswers ==
    {[answer |-> a, result |-> <<>>] :
        a \in {"send_failed", "not_json", "json_without_result"}}
    \cup {[answer |-> "json", result |-> r] : r \in ResultsOf(IcmpItems, MaxSeries)}

\* metric.get(label).and_then(|v| v.as_str()).unwrap_or("unknown")
LabelOrUnknown(metric, label) ==
    IF label \in DOMAIN metric THEN metric[label] ELSE "unknown"

\* s.parse::<u64>().ok()
ParseU64(text) ==
    CASE text = "100" -> 100
      [] text = "101" -> 101
      [] text = "250" -> 250
      [] OTHER -> 0

\* value.get(1).and_then(as_str).and_then(parse).unwrap_or(0)
MetricValue(value) == IF Len(value) >= 2 THEN ParseU64(value[2]) ELSE 0

\* if metric_value <= 100 { continue; }
SkipsSmall_Below(metric_value) == metric_value < MinBytes

SkipsSmall(metric_value) == metric_value <= MinBytes

DataTypeOf(metric_name) ==
    CASE metric_name = "download_bytes" -> "download"
      [] metric_name = "upload_bytes" -> "upload"
      [] OTHER -> "none"

\* The loop of fetch_prometheus_metrics over data.result.
RECURSIVE CollectMetrics(_)
CollectMetrics(items) ==
    IF items = <<>> THEN <<>>
    ELSE LET n == Len(items)
             metrics == CollectMetrics(SubSeq(items, 1, n - 1))
             item == items[n]
             metric_name == LabelOrUnknown(item.metric, "__name__")
             metric_value == MetricValue(item.value)
         IN  IF item.shape # "series" THEN metrics
             ELSE IF DataTypeOf(metric_name) = "none" THEN metrics
             ELSE IF SkipsSmall(metric_value) THEN metrics
             ELSE Append(metrics,
                         [ip |-> LabelOrUnknown(item.metric, "remote_ip"),
                          interface |-> LabelOrUnknown(item.metric, "interface"),
                          data_type |-> DataTypeOf(metric_name),
                          bytes |-> metric_value])

\* fetch_prometheus_metrics: Err for a failed request or body, else the list
FetchFails(answer) == answer.answer \in {"send_failed", "not_json"}

\* What measure_icmp_rtt can return: Some(rtt) or None.
RttValues == {1, 2}
ProbeOutcomes == {<<rtt>> : rtt \in RttValues} \cup {<<>>}

\* rtt_gauge.with_label_values(&[remote_ip, interface, data_type]).set(rtt_ms)
set_rtt(gauge, remote_ip, interface, data_type, rtt_ms) ==
    MapInsert(gauge, <<remote_ip, interface, data_type>>, rtt_ms)

\* main: fetch_prometheus_metrics returns; on Ok ping_and_update_metrics
\* spawns one task for each metric of the list
IcmpFetch(answer) ==
    /\ icmpPc = "fetch"
    /\ json' = answer
    /\ IF FetchFails(answer)
       THEN /\ icmpPc' = "sleep"
            /\ UNCHANGED <<metrics_list, handles>>
       ELSE /\ metrics_list' = CollectMetrics(answer.result)
            /\ handles' = [i \in DOMAIN metrics_list' |-> "running"]
            /\ icmpPc' = "join"
    /\ UNCHANGED rtt_gauge
    /\ UNCHANGED <<dumpVars, thrVars, tcpVars>>

\* one spawned task: measure_icmp_rtt returns and, for Some(rtt), set_rtt
IcmpProbe(i, outcome) ==
    /\ icmpPc = "join"
    /\ i \in DOMAIN handles
    /\ handles[i] = "running"
    /\ IF outcome = <<>>
       THEN /\ handles' = [handles EXCEPT ![i] = "no_rtt"]
            /\ UNCHANGED rtt_gauge
       ELSE /\ handles' = [handles EXCEPT ![i] = "measured"]
            /\ rtt_gauge' = set_rtt(rtt_gauge, metrics_list[i].ip,
                                    metrics_list[i].interface,
                                    metrics_list[i].data_type, outcome[1])
    /\ UNCHANGED <<icmpPc, json, metrics_list>>
    /\ UNCHANGED <<dumpVars, thrVars, tcpVars>>

\* `for handle in handles { handle.await }` has got through every handle
IcmpJoin ==
    /\ icmpPc = "join"
    /\ \A i \in DOMAIN handles : handles[i] # "running"
    /\ icmpPc' = "sleep"
    /\ UNCHANGED <<json, metrics_list, handles, rtt_gauge>>
    /\ UNCHANGED <<dumpVars, thrVars, tcpVars>>

\* sleep(Duration::from_secs(1)) is over: the next turn of the loop
IcmpWake ==
    /\ icmpPc = "sleep"
    /\ icmpPc' = "fetch"
    /\ UNCHANGED <<json, metrics_list, handles, rtt_gauge>>
    /\ UNCHANGED <<dumpVars, thrVars, tcpVars>>

NextIcmp ==
    \/ \E answer \in IcmpAnswers : IcmpFetch(answer)
    \/ \E i \in 1..MaxSeries : \E outcome \in ProbeOutcomes : IcmpProbe(i, outcome)
    \/ IcmpJoin
    \/ IcmpWake

\* main has built the collector and enters its loop.
InitIcmp ==
    /\ DumpStart
    /\ ThrOff
    /\ TcpOff
    /\ icmpPc = "fetch"
    /\ json = NoJson
    /\ metrics_list = <<>>
    /\ handles = <<>>
    /\ rtt_gauge = EmptyMap

SpecIcmp == InitIcmp /\ [][NextIcmp]_vars

\* =========================================================== tcp-traffic-scan
\* The TCP window probe: main parses its arguments and, until Ctrl+C, measures
\* every server over every interface once a second.
ArgChoices ==
    {[interface |-> i, server |-> s] :
        i \in {<<>>, <<"eth0">>, <<"eth0", "eth1">>},
        s \in {<<>>, <<"192.0.2.1">>, <<"192.0.2.1", "nohost">>}}

\* What resolve_server_address and measure_throughput can come back with;
\* the round trip is in microseconds.
MeasureOutcomes ==
    {[kind |-> k, rtt_us |-> 0, rcvbuf |-> 0] :
        k \in {"resolve_failed", "measure_failed"}}
    \cup {[kind |-> "measured", rtt_us |-> r, rcvbuf |-> 10] : r \in {0, 16}}

\* format!("{:.0}", x) of x = n / d: the nearest integer, a tie to the even one
RoundHalfEven(n, d) ==
    LET q == n \div d
        r == n % d
    IN  IF 2 * r < d THEN q
        ELSE IF 2 * r > d THEN q + 1
        ELSE IF q % 2 = 0 THEN q ELSE q + 1

\* (window_size as f64 * 8.0) / rtt.as_secs_f64() / 1_000_000.0, the window
\* being half of SO_RCVBUF on Linux
ThroughputMbps(rtt_us, rcvbuf) ==
    IF rtt_us > 0 THEN RoundHalfEven((rcvbuf \div 2) * 8, rtt_us) ELSE 0

\* The string pushed to results for a server.
ResultString(server_str, outcome) ==
    CASE outcome.kind = "measured" ->
            [server |-> server_str, kind |-> "Mbps",
             mbps |-> ThroughputMbps(outcome.rtt_us, outcome.rcvbuf)]
      [] outcome.kind = "measure_failed" ->
            [server |-> server_str, kind |-> "ERR", mbps |-> 0]
      [] outcome.kind = "resolve_failed" ->
            [server |-> server_str, kind |-> "N/A", mbps |-> 0]

\* while running.load(Ordering::SeqCst)
LoopContinues_Always(flag) == TRUE

LoopContinues(flag) == flag

\* Args::parse()
TcpParse(a) ==
    /\ tcpPc = "start"
    /\ args' = a
    /\ tcpPc' = "check"
    /\ UNCHANGED <<running, handlerSet, interfaceIdx, serverIdx, results,
                   measured>>
    /\ UNCHANGED <<dumpVars, thrVars, icmpVars>>

\* the two is_empty checks, each followed by std::process::exit(2)
TcpCheckArgs ==
    /\ tcpPc = "check"
    /\ tcpPc' = IF args.interface = <<>> \/ args.server = <<>>
                THEN "exit2" ELSE "set_handler"
    /\ UNCHANGED <<args, running, handlerSet, interfaceIdx, serverIdx,
                   results, measured>>
    /\ UNCHANGED <<dumpVars, thrVars, icmpVars>>

\* let _ = ctrlc::set_handler(..): an Err is dropped
TcpSetHandler(ok) ==
    /\ tcpPc = "set_handler"
    /\ handlerSet' = ok
    /\ tcpPc' = "loop"
    /\ UNCHANGED <<args, running, interfaceIdx, serverIdx, results, measured>>
    /\ UNCHANGED <<dumpVars, thrVars, icmpVars>>

\* the condition of the main loop: a new round, or main returns
TcpLoop ==
    /\ tcpPc = "loop"
    /\ IF LoopContinues(running)
       THEN /\ tcpPc' = "measure"
            /\ interfaceIdx' = 1
            /\ serverIdx' = 1
            /\ results' = <<>>
       ELSE /\ tcpPc' = "returned"
            /\ UNCHANGED <<interfaceIdx, serverIdx, results>>
    /\ UNCHANGED <<args, running, handlerSet, measured>>
    /\ UNCHANGED <<dumpVars, thrVars, icmpVars>>

\* one turn of the server loop: resolve, measure, push the result
TcpMeasure(outcome) ==
    /\ tcpPc = "measure"
    /\ serverIdx <= Len(args.server)
    /\ results' = Append(results, ResultString(args.server[serverIdx], outcome))
    /\ serverIdx' = serverIdx + 1
    /\ measured' = TRUE
    /\ UNCHANGED <<tcpPc, args, running, handlerSet, interfaceIdx>>
    /\ UNCHANGED <<dumpVars, thrVars, icmpVars>>

\* the interface's line is printed; the next interface, or the round is over
TcpPrint ==
    /\ tcpPc = "measure"
    /\ serverIdx > Len(args.server)
    /\ results' = <<>>
    /\ serverIdx' = 1
    /\ IF interfaceIdx < Len(args.interface)
       THEN interfaceIdx' = interfaceIdx + 1 /\ UNCHANGED tcpPc
       ELSE tcpPc' = "sleep" /\ UNCHANGED interfaceIdx
    /\ UNCHANGED <<args, running, handlerSet, measured>>
    /\ UNCHANGED <<dumpVars, thrVars, icmpVars>>

\* one turn of the sleep loop: out when running is false or the second has
\* passed, else another 50 ms
TcpSleep(elapsed) ==
    /\ tcpPc = "sleep"
    /\ tcpPc' = IF ~running \/ elapsed THEN "loop" ELSE "sleep"
    /\ UNCHANGED <<args, running, handlerSet, interfaceIdx, serverIdx,
                   results, measured>>
    /\ UNCHANGED <<dumpVars, thrVars, icmpVars>>

\* SIGINT: the handler stores false, or without a handler the process dies
TcpInterrupt ==
    /\ tcpPc \notin {"off", "exit2", "returned", "killed"}
    /\ IF handlerSet
       THEN running' = FALSE /\ UNCHANGED tcpPc
       ELSE tcpPc' = "killed" /\ UNCHANGED running
    /\ UNCHANGED <<args, handlerSet, interfaceIdx, serverIdx, results,
                   measured>>
    /\ UNCHANGED <<dumpVars, thrVars, icmpVars>>

\* The steps of main.
TcpStep ==
    \/ \E a \in ArgChoices : TcpParse(a)
    \/ TcpCheckArgs
    \/ \E ok \in BOOLEAN : TcpSetHandler(ok)
    \/ TcpLoop
    \/ \E outcome \in MeasureOutcomes : TcpMeasure(outcome)
    \/ TcpPrint
    \/ \E elapsed \in BOOLEAN : TcpSleep(elapsed)

NextTcp ==
    \/ TcpStep
    \/ TcpInterrupt

InitTcp ==
    /\ DumpStart
    /\ ThrOff
    /\ IcmpOff
    /\ tcpPc = "start"
    /\ args = NoArgs
    /\ running = TRUE
    /\ handlerSet = FALSE
    /\ interfaceIdx = 0
    /\ serverIdx = 0
    /\ results = <<>>
    /\ measured = FALSE

\* main runs on: every call it makes returns (connect_timeout is 5 s).
SpecTcp == InitTcp /\ [][NextTcp]_vars /\ WF_vars(TcpStep)

\* ===================================================================== C1
WindowMap(dir) ==
    IF dir = "download" THEN window_download_bytes ELSE window_upload_bytes
Gauge(dir) ==
    IF dir = "download" THEN download_bytes_gauge ELSE upload_bytes_gauge

\* What the window counter of key reads (an absent entry reads 0).
Counter(dir, key) ==
    IF key \in DOMAIN WindowMap(dir) THEN WindowMap(dir)[key] ELSE 0

\* C1: no loss, no duplication. Between ticks, the bytes recorded for a key
\* and direction so far are the bytes published for it so far plus the bytes
\* still waiting in its window counter.
C1_NoLossNoDuplication ==
    pubPc = "idle" =>
        \A dir \in Dirs : \A k \in Keys :
            Val(unpublished, <<dir, k>>) = Counter(dir, k)

\* ===================================================================== C2
\* The known walk of the tick in progress is over.
ZeroingDone == pubPc \in {"clear_download", "clear_upload"}

\* C2: zero-decay. When a tick has finished its zeroing pass, every key that an
\* earlier tick found in a window and that this tick found in neither window
\* map has both gauges at 0.
C2_ZeroDecay ==
    ZeroingDone =>
        \A k \in appeared \ (current_download_keys \cup current_upload_keys) :
            /\ k \in DOMAIN download_bytes_gauge
            /\ download_bytes_gauge[k] = 0
            /\ k \in DOMAIN upload_bytes_gauge
            /\ upload_bytes_gauge[k] = 0

\* ===================================================================== C3
\* C3: a scrape taken between two ticks returns, for every key and direction
\* it lists, the bytes recorded for that key and direction in the window the
\* latest tick closed.
C3_ScrapeIsLastWindow ==
    (mainPc = "serving" /\ pubPc = "idle") =>
        \A dir \in Dirs : \A k \in DOMAIN encode_metrics[dir] :
            encode_metrics[dir][k] = Val(lastWin, <<dir, k>>)

\* ===================================================================== C4
\* A step of the publisher task.
PubStep == <<pubPc, pubShard>>' # <<pubPc, pubShard>>

\* The keys the walk over the window map of dir meets in the shard it is at.
Walked(dir) == InShard(DOMAIN WindowMap(dir), pubShard)

PublishesWindowBytes ==
    \A dir \in Dirs :
        (pubPc = dir /\ PubStep) =>
            \A k \in Walked(dir) :
                /\ k \in DOMAIN Gauge(dir)'
                /\ Gauge(dir)'[k] = Val(winBytes, <<dir, k>>)

TickEnds == pubPc # "idle" /\ pubPc' = "idle"

\* The step of record_packet that adds to a window counter.
CountStep == capPc = "count" /\ capPc' = "known"

AllCountersZeroAfterTick ==
    TickEnds => (window_download_bytes' = EmptyMap
                 /\ window_upload_bytes' = EmptyMap)

FirstFrameAfterResetCountsItsLength ==
    (CountStep /\ Counter(CapDir, CapKey) = 0) =>
        Counter(CapDir, CapKey)' = capFrame.len

\* C5: when a tick ends every window counter reads zero, and a single frame
\* of length L recorded into a counter that reads zero makes the next tick
\* publish exactly L.
C5_ResetThenSingleFrame ==
    [][/\ AllCountersZeroAfterTick
       /\ FirstFrameAfterResetCountsItsLength
       /\ PublishesWindowBytes]_vars

\* ===================================================================== C6
\* The tick in progress follows n ticks that ran with no record_packet step
\* between the start of the first of them and now.
QuietCallAfter(n) ==
    quiet.on /\ quiet.clean /\ quiet.done >= n /\ pubPc # "idle"

CapturesEmptyWindow ==
    /\ current_download_keys' = {}
    /\ current_upload_keys' = {}
    /\ UNCHANGED <<windowVars, known_metrics>>

KnownKeysPublishedAsZero ==
    ZeroingDone' =>
        \A k \in known_metrics :
            /\ k \in DOMAIN download_bytes_gauge'
            /\ download_bytes_gauge'[k] = 0
            /\ k \in DOMAIN upload_bytes_gauge'
            /\ upload_bytes_gauge'[k] = 0

\* C6 as claimed: every call after the first of a run of calls with no
\* record_packet in between captures an empty window, publishes 0 for every
\* known key and leaves window maps, known keys and gauges unchanged.
C6_AsClaimed ==
    [][(QuietCallAfter(1) /\ PubStep) =>
          /\ CapturesEmptyWindow
          /\ KnownKeysPublishedAsZero
          /\ UNCHANGED gaugeVars]_vars

\* C6 as amended: every such call captures an empty window, publishes 0 for
\* every known key and leaves window maps and known keys unchanged; the
\* gauges are left unchanged by every call after the second.
C6_Idempotent ==
    [][/\ (QuietCallAfter(1) /\ PubStep) =>
              (CapturesEmptyWindow /\ KnownKeysPublishedAsZero)
       /\ (QuietCallAfter(2) /\ PubStep) => UNCHANGED gaugeVars]_vars

\* The third call of such a run has finished its zeroing pass over a known key.
C6_Witness ==
    /\ QuietCallAfter(2)
    /\ ZeroingDone
    /\ known_metrics # {}

\* ===================================================================== C7
\* The addresses of the model that lie in 10.40.0.0/20.
IsLocalAddr(a) == a \in {LocalA, LocalB}

\* A step of the capture task.
CapStep == capVars' # capVars

CountedAs(dir, remote, local) ==
    /\ capPc = "received" =>
          (capPc' = "count"
           /\ capIface' = get_interface_for_ip(status, local))
    /\ capPc = "count" =>
          /\ Counter(dir, <<remote, capIface>>)' =
                Counter(dir, <<remote, capIface>>) + capFrame.len
          /\ \A d \in Dirs : \A k \in Keys :
                <<d, k>> # <<dir, <<remote, capIface>>>> =>
                    Counter(d, k)' = Counter(d, k)

\* C7: record_packet counts a frame from a local to a remote address as
\* upload only, under (destination, interface resolved for the source), and a
\* frame from a remote to a local address as download only, under (source,
\* interface resolved for the destination); the counter grows by the length.
C7_Direction ==
    [][(CapStep /\ capFrame.kind = "ip") =>
          /\ (IsLocalAddr(capFrame.src) /\ ~IsLocalAddr(capFrame.dst)) =>
                CountedAs("upload", capFrame.dst, capFrame.src)
          /\ (~IsLocalAddr(capFrame.src) /\ IsLocalAddr(capFrame.dst)) =>
                CountedAs("download", capFrame.src, capFrame.dst)]_vars

\* An upload frame and then a download frame of the same peer are counted.
C7_Witness ==
    /\ capPc = "known"
    /\ capFrame.src = RemoteA
    /\ capFrame.dst = LocalA
    /\ Counter("download", <<RemoteA, capIface>>) = capFrame.len
    /\ \E k \in DOMAIN window_upload_bytes : k[1] = RemoteA

\* ===================================================================== C8
SameSide(frame) == IsLocalAddr(frame.src) <=> IsLocalAddr(frame.dst)

\* C8: record_packet on a frame whose two addresses are both local or both
\* remote returns without changing a window map, the known keys or a gauge.
C8_IgnoredFrame ==
    [][(CapStep /\ capFrame.kind = "ip" /\ SameSide(capFrame)) =>
          /\ capPc' = "capturing"
          /\ UNCHANGED <<windowVars, known_metrics, gaugeVars>>]_vars

\* record_packet is called on a both-local frame while there are counters,
\* known keys and gauges it could touch.
C8_Witness ==
    /\ capPc = "received"
    /\ capFrame.kind = "ip"
    /\ IsLocalAddr(capFrame.src) /\ IsLocalAddr(capFrame.dst)
    /\ window_download_bytes # EmptyMap
    /\ known_metrics # {}
    /\ upload_bytes_gauge # EmptyMap

\* ===================================================================== C9
\* C9: a fetch_status that fails (no answer, a body that is not JSON, a
\* document without a required field) leaves the label of every address as it
\* was, at startup and in the refresher.
C9_FailedFetchKeepsMapping ==
    [][\A resp \in Responses :
          (Failed(resp) /\ (InitialFetch(resp) \/ Refresh(resp))) =>
              \A ip \in Addrs :
                  get_interface_for_ip(status', ip) =
                      get_interface_for_ip(status, ip)]_vars

\* The latest refresh failed and a mapping loaded before it is in place.
C9_Witness ==
    /\ lastFetch = "failed"
    /\ status # <<>>
    /\ get_interface_for_ip(status, LocalA) # get_interface_for_ip(status, LocalB)

\* ==================================================================== C10
\* The local address of the frame record_packet resolved the interface of.
ResolvedFor ==
    IF IsLocalAddr(capFrame.src) THEN capFrame.src ELSE capFrame.dst

MapsTo(ip, wan) ==
    /\ status # <<>>
    /\ ip \in DOMAIN status[1].mappings
    /\ status[1].mappings[ip] = wan

AbsentFromMapping(ip) == status # <<>> /\ ip \notin DOMAIN status[1].mappings

IsWan0Label(label) == status # <<>> /\ label = status[1].config.wan0
IsWan1Label(label) == status # <<>> /\ label = status[1].config.wan1

\* C10 as claimed: get_interface_for_ip returns the wan1 label iff the
\* address maps to "wan1", the wan0 label when it maps to "wan0" or is
\* absent, and "unknown" iff no mapping was ever loaded.
C10_AsClaimed ==
    capPc = "count" =>
        /\ IsWan1Label(capIface) <=> MapsTo(ResolvedFor, "wan1")
        /\ (MapsTo(ResolvedFor, "wan0") \/ AbsentFromMapping(ResolvedFor)) =>
              IsWan0Label(capIface)
        /\ capIface = "unknown" <=> status = <<>>

\* C10 as amended: get_interface_for_ip returns the wan1 label if the
\* address maps to "wan1", the wan0 label if a mapping is loaded and the
\* address maps to anything else or is absent, and "unknown" if no mapping was
\* ever loaded; the wan1 label implies a "wan1" entry only when the two labels
\* differ, and "unknown" implies that nothing was loaded only when the label
\* returned is not one the loaded configuration names "unknown".
C10_ResolveInterface ==
    capPc = "count" =>
        /\ MapsTo(ResolvedFor, "wan1") => IsWan1Label(capIface)
        /\ (status # <<>> /\ ~MapsTo(ResolvedFor, "wan1")) =>
              IsWan0Label(capIface)
        /\ status = <<>> => capIface = "unknown"
        /\ (IsWan1Label(capIface) /\ ~IsWan0Label(capIface)) =>
              MapsTo(ResolvedFor, "wan1")
        /\ (capIface = "unknown" /\ ~IsWan0Label(capIface)
                /\ ~IsWan1Label(capIface)) => status = <<>>

\* An address mapped to "wan1" got the wan1 label of a configuration whose
\* two labels differ, while the other local address is mapped to neither.
C10_Witness ==
    /\ capPc = "count"
    /\ MapsTo(ResolvedFor, "wan1")
    /\ capIface = status[1].config.wan1
    /\ status[1].config.wan0 # status[1].config.wan1
    /\ \E ip \in {LocalA, LocalB} : MapsTo(ip, "wan2")

\* ==================================================================== C11
\* The step on which get_interface_for_ip returns.
ReadEnds == capPc \in {"resolve_locked", "resolve_label"} /\ capPc' = "count"

\* C11: whatever fetch_status does while get_interface_for_ip runs, the label
\* returned is the one a single status document gives for the address: the
\* document stored when the read lock was granted.
C11_AtomicRefresh ==
    [][ReadEnds => capIface' = get_interface_for_ip(rdAt, ResolvedFor)]_vars

\* get_interface_for_ip is between its two reads while a fetch_status holds a
\* document that resolves the address differently and waits to store it.
C11_Witness ==
    /\ capPc = "resolve_label"
    /\ fetchPc = "store"
    /\ get_interface_for_ip(fetchNew, ResolvedFor) #
           get_interface_for_ip(status, ResolvedFor)
    /\ LabelFor(fetchNew, rdWan) # get_interface_for_ip(status, ResolvedFor)

\* ==================================================================== C12
\* The states of the capture loop where frames are being received.
InCapturing ==
    capPc \in {"capturing", "received", "resolve_locked", "resolve_label",
              "count", "known"}

\* C12: the capture loop starts in Searching, enters Capturing only from
\* Searching, and after it has left Capturing (a receive error) it looks the
\* interface up again only once the backoff delay has been waited.
C12_BackoffAfterReceiveError ==
    [][/\ (capPc = "unspawned" /\ capPc' # capPc) => capPc' = "searching"
       /\ (~InCapturing /\ InCapturing') => capPc = "searching"
       /\ (capPc # "searching" /\ capPc' = "searching") =>
              capPc \in {"unspawned", "sleeping"}]_vars

\* ==================================================================== C13
\* C13: the refresher never blocks the capture path and never ends the
\* process: once main has reached its startup fetch the capture loop gets
\* started whether or not that fetch ever completes, a frame that record_packet
\* is about to resolve can take the read lock while a request is in flight,
\* and no fetch outcome aborts the process.
C13_RefresherNeverBlocksCapture ==
    /\ (mainPc = "initial_fetch") ~> (capPc # "unspawned")
    /\ []((capPc = "received" /\ Countable(capFrame) /\ fetchPc = "requesting")
              => CanRead(statusLock))
    /\ [][mainPc' = "aborted" => mainPc = "new"]_vars

\* ==================================================================== C14
\* No task has run and the listener does not answer.
NothingStarted ==
    /\ capPc = "unspawned"
    /\ pubPc = "idle"
    /\ fetchPc = "idle"
    /\ status = <<>>
    /\ nReceived = 0
    /\ download_bytes_gauge = EmptyMap
    /\ upload_bytes_gauge = EmptyMap
    /\ ~ENABLED Scrape

\* C14: a gauge family that cannot be created or registered aborts the
\* process at once; an aborted process stays aborted and has started no
\* capture task, publisher task, refresher task or listener.
C14_AbortOnRegistrationFailure ==
    /\ [](mainPc = "aborted" => NothingStarted)
    /\ [][/\ \A outcome \in RegisterOutcomes \ {"registered"} :
                New(outcome) => mainPc' = "aborted"
          /\ mainPc = "aborted" => mainPc' = "aborted"]_vars

\* The registration failed.
C14_Witness == mainPc = "aborted"

\* ==================================================================== C15
\* A step of monitor_interface and of the record_packet it awaits.
CapNext ==
    \/ CapSearch
    \/ CapWake
    \/ CapReceive
    \/ CapRecvError
    \/ CapDrop
    \/ RecordIgnore
    \/ RecordResolve
    \/ RecordCount
    \/ RecordKnown

\* C15: the capture loop has no terminal state. Once started it is always in
\* Searching, in its delay or in Capturing, and always has a step it can take;
\* a failed lookup or open leads to the delay and the delay back to Searching;
\* leaving Capturing leads to Searching.
C15_NoTerminalState ==
    /\ [](capPc # "unspawned" =>
             /\ capPc = "searching" \/ capPc = "sleeping" \/ InCapturing
             /\ ENABLED CapNext)
    /\ [][/\ (capPc = "searching" /\ capPc' # capPc) =>
                 capPc' \in {"capturing", "sleeping"}
          /\ (capPc = "sleeping" /\ capPc' # capPc) => capPc' = "searching"
          /\ (InCapturing /\ ~InCapturing') => capPc' = "searching"]_vars

\* After frames were counted the capture failed, the loop went back to
\* Searching, could not open the interface and waits to retry.
C15_Witness == capPc = "sleeping" /\ nFrames > 0

\* ==================================================================== C16
\* C16: a frame that is truncated, of another ethertype or not parsable as IP
\* is dropped: the step that handles it changes no counter, known key or
\* gauge and leaves the loop in Capturing, where the next frame can be
\* received.
C16_MalformedFrameDropped ==
    /\ [][(CapStep /\ capPc = "received" /\ capFrame \in DroppedFrames) =>
             /\ capPc' = "capturing"
             /\ UNCHANGED <<windowVars, known_metrics, gaugeVars>>]_vars
    /\ [](capPc = "capturing" => ENABLED CapReceive)

\* A frame that cannot be parsed was received while there are counters, known
\* keys and gauges.
C16_Witness ==
    /\ capPc = "received"
    /\ capFrame \in DroppedFrames
    /\ window_upload_bytes # EmptyMap
    /\ known_metrics # {}
    /\ download_bytes_gauge # EmptyMap

\* ==================================================================== C17
\* C17: frames are processed one at a time. A frame is pulled only when no
\* record_packet is in flight; at most one received frame is not yet counted,
\* and it is the one record_packet holds; the frame a count step counts is
\* the latest one received, so frames are counted in their order of arrival.
C17_OneFrameAtATime ==
    /\ [][/\ (nReceived' # nReceived \/ capFrame' \notin {capFrame, NoFrame}) =>
                (capPc = "capturing" /\ capFrame = NoFrame)
          /\ CountStep => nFrames' = nReceived]_vars
    /\ [](/\ nReceived - nFrames \in {0, 1}
          /\ nReceived - nFrames = 1 <=>
                /\ capPc \in {"received", "resolve_locked", "resolve_label",
                              "count"}
                /\ Countable(capFrame))

\* Two frames were received and counted one after the other.
C17_Witness == nFrames > 1 /\ nReceived = nFrames /\ capPc = "capturing"

\* ==================================================================== C18
\* C18: no step of record_packet, publish_bytes_and_reset, fetch_status or a
\* scrape removes a key from known_metrics.
C18_KnownKeysOnlyGrow == [][known_metrics \subseteq known_metrics']_vars

\* Two keys are known, one of them since before a finished tick, and a later
\* tick has finished too.
C18_Witness ==
    /\ Cardinality(known_metrics) > 1
    /\ appeared \cap known_metrics # {}
    /\ pubPc = "idle"
    /\ status # <<>>

\* ==================================================================== C19
\* What a status document alone says about an address.
DocLabel(doc, ip) ==
    IF ip \in DOMAIN doc.mappings /\ doc.mappings[ip] = "wan1"
    THEN doc.config.wan1
    ELSE doc.config.wan0

\* The step on which fetch_status stores a document.
StoreStep == fetchPc = "locked" /\ fetchPc' = "idle"

\* C19: a successful fetch_status replaces the mapping wholesale. After the
\* store, and after a successful startup fetch, get_interface_for_ip gives for
\* every address what the new document alone says.
C19_WholesaleReplace ==
    [][/\ StoreStep =>
             \A ip \in Addrs :
                 get_interface_for_ip(status', ip) = DocLabel(fetchNew[1], ip)
       /\ \A resp \in Responses :
             (~Failed(resp) /\ InitialFetch(resp)) =>
                 \A ip \in Addrs :
                     get_interface_for_ip(status', ip) = DocLabel(resp.doc, ip)
      ]_vars

\* An address the previous document mapped to "wan1" is absent from the one
\* stored last, which names its WAN interfaces differently, and resolves to
\* the wan0 label of the new document.
C19_Witness ==
    /\ prevStatus.on
    /\ prevStatus.st # <<>>
    /\ status # <<>>
    /\ fetchPc = "idle"
    /\ \E ip \in Addrs :
          /\ ip \in DOMAIN prevStatus.st[1].mappings
          /\ prevStatus.st[1].mappings[ip] = "wan1"
          /\ ip \notin DOMAIN status[1].mappings
          /\ get_interface_for_ip(status, ip) = status[1].config.wan0
    /\ status[1].config # prevStatus.st[1].config

\* ==================================================================== C20
\* C20: when a tick ends, every key it published from a window map is a
\* member of known_metrics.
C20_PublishedKeysKnown ==
    [][TickEnds =>
          (current_download_keys \cup current_upload_keys)
              \subseteq known_metrics']_vars

\* ==================================================================== C21
\* C21: when the zeroing pass of a tick is over, a key the tick found in one
\* window map only has the gauge of the other direction at 0.
C21_BothGaugesSet ==
    ZeroingDone =>
        /\ \A k \in current_download_keys \ current_upload_keys :
              k \in DOMAIN upload_bytes_gauge /\ upload_bytes_gauge[k] = 0
        /\ \A k \in current_upload_keys \ current_download_keys :
              k \in DOMAIN download_bytes_gauge /\ download_bytes_gauge[k] = 0

\* ==================================================================== C23
\* The step on which record_packet gets the interface label of its frame.
ResolveStep == capPc = "received" /\ capPc' = "count"

WanLabels(st) == {st[1].config.wan0, st[1].config.wan1}

StaysLoaded == status # <<>> => status' # <<>>

\* C23 as claimed: once a document is loaded the mapping never returns to the
\* not-loaded state, get_interface_for_ip never gives "unknown" again, and no
\* key counted from then on carries the label "unknown".
C23_AsClaimed ==
    [][/\ StaysLoaded
       /\ status # <<>> =>
             \A ip \in Addrs : get_interface_for_ip(status, ip) # "unknown"
       /\ (status # <<>> /\ CountStep) => CapKey[2] # "unknown"]_vars

\* C23 as amended: once a document is loaded the mapping never returns to the
\* not-loaded state; from then on get_interface_for_ip gives a WAN label of
\* the stored document (so "unknown" only if that document names an interface
\* so), and a frame whose interface is resolved from then on is counted under
\* a key carrying that label. A frame whose interface was resolved before the
\* load is still counted under "unknown".
C23_LoadedStaysLoaded ==
    [][/\ StaysLoaded
       /\ status # <<>> =>
             \A ip \in Addrs :
                 /\ get_interface_for_ip(status, ip) \in WanLabels(status)
                 /\ "unknown" \notin WanLabels(status) =>
                        get_interface_for_ip(status, ip) # "unknown"
       /\ (status # <<>> /\ ResolveStep) => capIface' \in WanLabels(status)
       /\ CountStep =>
             /\ CapKey[2] = capIface
             /\ Counter(CapDir, CapKey)' = Counter(CapDir, CapKey) + capFrame.len
      ]_vars

\* A key was recorded under "unknown" before any document was loaded; with a
\* document loaded, a frame has been counted under one of its WAN labels.
C23_Witness ==
    /\ status # <<>>
    /\ capPc = "known"
    /\ capIface \in WanLabels(status)
    /\ \E k \in known_metrics : k[2] = "unknown"

\* ==================================================================== C24
\* The labels the stored mapping gives to the local addresses.
LiveLabels == {get_interface_for_ip(status, ip) : ip \in {LocalA, LocalB}}

\* C24: the label of a key is the one the mapping gave when record_packet
\* resolved it; a refresh moves no counted bytes, known keys or gauges; and a
\* key published under a label the mapping no longer gives is a known key and
\* has both gauges at 0 after the zeroing pass of every tick that found it in
\* neither window map.
C24_LabelFixedAtRecord ==
    /\ [][/\ ResolveStep =>
                capIface' = get_interface_for_ip(status, ResolvedFor)
          /\ status' # status =>
                UNCHANGED <<windowVars, known_metrics, gaugeVars>>]_vars
    /\ [](ZeroingDone =>
             \A k \in appeared \ (current_download_keys \cup current_upload_keys) :
                 k[2] \notin LiveLabels =>
                     /\ k \in known_metrics
                     /\ k \in DOMAIN download_bytes_gauge
                     /\ download_bytes_gauge[k] = 0
                     /\ k \in DOMAIN upload_bytes_gauge
                     /\ upload_bytes_gauge[k] = 0)

\* ==================================================================== C25
\* What a step of record_packet on a frame of direction dir from or to the
\* peer remote may change.
TouchesOnlyOwn(dir, remote) ==
    /\ \A d \in Dirs : \A k \in Keys :
          Counter(d, k)' # Counter(d, k) => (d = dir /\ k = <<remote, capIface>>)
    /\ known_metrics \subseteq known_metrics'
    /\ known_metrics' \ known_metrics \subseteq {<<remote, capIface>>}
    /\ UNCHANGED <<status, gaugeVars>>

\* C25: record_packet for a download frame changes only the download counter
\* of its own key and adds only that key to known_metrics, and leaves every
\* other counter, the stored mapping and the gauges alone; the same for an
\* upload frame. A gauge changes only in a step of publish_bytes_and_reset,
\* the stored mapping only in a fetch_status that succeeded.
C25_FrameEffect ==
    [][/\ (CapStep /\ capFrame.kind = "ip") =>
             /\ (~IsLocalAddr(capFrame.src) /\ IsLocalAddr(capFrame.dst)) =>
                    TouchesOnlyOwn("download", capFrame.src)
             /\ (IsLocalAddr(capFrame.src) /\ ~IsLocalAddr(capFrame.dst)) =>
                    TouchesOnlyOwn("upload", capFrame.dst)
       /\ gaugeVars' # gaugeVars => (pubPc # "idle" /\ PubStep)
       /\ status' # status =>
             \E resp \in Responses :
                 /\ ~Failed(resp)
                 /\ InitialFetch(resp) \/ Refresh(resp)]_vars

\* A download frame has been counted and its key inserted while the upload
\* map holds a counter, another download key is known and gauges are set.
C25_Witness ==
    /\ capPc = "capturing"
    /\ window_upload_bytes # EmptyMap
    /\ window_download_bytes # EmptyMap
    /\ \E k \in known_metrics : k \notin DOMAIN window_download_bytes
    /\ upload_bytes_gauge # EmptyMap
    /\ status # <<>>

\* ==================================================================== C22
\* A cycle of calculate_throughput has just returned Ok; the answers to its
\* three queries are still at hand.
CycleOk == thrPc = "tick" /\ lastCycle = "ok"

Labelled(sample) == {"interface", "remote_ip"} \subseteq DOMAIN sample.metric

\* The values of the samples an answer holds for a pair.
SamplesOf(resp, key) ==
    {ParseF64(resp.result[i].value) :
        i \in {j \in DOMAIN resp.result :
                  /\ Labelled(resp.result[j])
                  /\ MetricKeyOf(resp.result[j]) = key}}

\* The bytes an answer reports for a pair, a missing sample counted as 0.
BytesOf(resp, key) ==
    IF SamplesOf(resp, key) = {} THEN 0
    ELSE CHOOSE v \in SamplesOf(resp, key) : TRUE

HasPositiveRtt(key) == \E rtt \in SamplesOf(rtt_resp, key) : rtt > 0

RECURSIVE SumOfGauges(_)
SumOfGauges(keys) ==
    IF keys = {} THEN FZero
    ELSE LET k == CHOOSE x \in keys : TRUE
         IN  FAdd(THROUGHPUT_GAUGES[k], SumOfGauges(keys \ {k}))

ComputedPairs(interface) ==
    {k \in MetricKeys : k.interface = interface /\ HasPositiveRtt(k)}

\* What C22 says of the gauges when a cycle has returned Ok.
CycleResult ==
    /\ \A key \in MetricKeys : \A rtt \in SamplesOf(rtt_resp, key) :
          rtt > 0 =>
             /\ key \in DOMAIN THROUGHPUT_GAUGES
             /\ THROUGHPUT_GAUGES[key] =
                   FDiv(BytesOf(download_resp, key)
                        + BytesOf(upload_resp, key), rtt)
    /\ \A interface \in ThrInterfaces :
          ComputedPairs(interface) # {} =>
             /\ ComputedPairs(interface) \subseteq DOMAIN THROUGHPUT_GAUGES
             /\ interface \in DOMAIN THROUGHPUT_TOTAL_GAUGES
             /\ THROUGHPUT_TOTAL_GAUGES[interface] =
                   SumOfGauges(ComputedPairs(interface))

\* A pair without an RTT above 0 keeps its gauge through the pair loop.
NoUpdateWithoutRtt ==
    \A key \in MetricKeys :
        (thrPc = "pairs" /\ ~HasPositiveRtt(key)) =>
            /\ key \in DOMAIN THROUGHPUT_GAUGES' =>
                  /\ key \in DOMAIN THROUGHPUT_GAUGES
                  /\ THROUGHPUT_GAUGES'[key] = THROUGHPUT_GAUGES[key]

\* C22: after a cycle, every pair with an RTT sample greater than 0 has its
\* gauge at (download + upload) / RTT, a missing download or upload counted
\* as 0; a pair whose RTT is 0 or negative gets no gauge update; and each
\* interface total is the sum of the throughputs computed for the interface.
C22_JoinAndDivide ==
    /\ [](CycleOk => CycleResult)
    /\ [][NoUpdateWithoutRtt]_vars

\* The same with at most one RTT series for each pair in the answer.
OneRttSeriesPerPair ==
    \A key \in MetricKeys :
        Cardinality({j \in DOMAIN rtt_resp.result :
                        /\ Labelled(rtt_resp.result[j])
                        /\ MetricKeyOf(rtt_resp.result[j]) = key}) <= 1

\* ==================================================================== C26
\* The query failed, or its answer does not carry the status "success".
QueryFailed(resp) == resp.answer # "json" \/ resp.status # "success"

ThrGauges == <<THROUGHPUT_GAUGES, THROUGHPUT_TOTAL_GAUGES, REGISTRY>>

\* The step in which calculate_throughput gets a failing answer.
GetsFailure ==
    \/ thrPc = "query_rtt" /\ thrPc' # thrPc /\ QueryFailed(rtt_resp')
    \/ thrPc = "query_download" /\ thrPc' # thrPc /\ QueryFailed(download_resp')
    \/ thrPc = "query_upload" /\ thrPc' # thrPc /\ QueryFailed(upload_resp')

\* C26: a cycle in which one of the three queries fails or answers with a
\* status other than "success" ends in an error before any gauge is touched:
\* the gauges and the registered descriptors are what they were, and the
\* task waits for its next tick. The loops over the gauges run only in a
\* cycle whose three queries succeeded.
C26_FailedQueryTouchesNothing ==
    /\ [][GetsFailure =>
            /\ thrPc' = "tick"
            /\ lastCycle' = "err"
            /\ UNCHANGED ThrGauges]_vars
    /\ [][ThrGauges' # ThrGauges =>
            /\ thrPc \in {"pairs", "totals"}
            /\ ~QueryFailed(rtt_resp)
            /\ ~QueryFailed(download_resp)
            /\ ~QueryFailed(upload_resp)]_vars
    /\ [](thrPc = "tick" => ENABLED ThrTick)

\* The third query of a cycle has failed after an earlier cycle set gauges.
C26_Witness ==
    /\ thrPc = "tick"
    /\ lastCycle = "err"
    /\ ~QueryFailed(rtt_resp)
    /\ ~QueryFailed(download_resp)
    /\ QueryFailed(upload_resp)
    /\ THROUGHPUT_GAUGES # EmptyMap
    /\ THROUGHPUT_TOTAL_GAUGES # EmptyMap

\* ==================================================================== C27
\* C27: no zero-decay. No gauge and no registered descriptor is ever removed;
\* the gauge of a pair changes (or appears) only in the pair loop of a cycle
\* whose RTT answer has a sample above 0 for the pair, and the total of an
\* interface changes (or appears) only in the total loop of a cycle that
\* computed a pair of the interface. Otherwise each keeps its last value.
C27_NoZeroDecay ==
    [][/\ DOMAIN THROUGHPUT_GAUGES \subseteq DOMAIN THROUGHPUT_GAUGES'
       /\ DOMAIN THROUGHPUT_TOTAL_GAUGES \subseteq DOMAIN THROUGHPUT_TOTAL_GAUGES'
       /\ REGISTRY \subseteq REGISTRY'
       /\ \A key \in DOMAIN THROUGHPUT_GAUGES' :
             (key \in DOMAIN THROUGHPUT_GAUGES =>
                 THROUGHPUT_GAUGES'[key] # THROUGHPUT_GAUGES[key])
             => (thrPc = "pairs" /\ HasPositiveRtt(key))
       /\ \A interface \in DOMAIN THROUGHPUT_TOTAL_GAUGES' :
             (interface \in DOMAIN THROUGHPUT_TOTAL_GAUGES =>
                 THROUGHPUT_TOTAL_GAUGES'[interface]
                     # THROUGHPUT_TOTAL_GAUGES[interface])
             => (thrPc = "totals" /\ ComputedPairs(interface) # {})]_vars

\* A cycle has ended in which a pair with a gauge above 0 had only an RTT
\* sample of 0 or less, and no pair of its interface was computed.
C27_Witness ==
    /\ CycleOk
    /\ PairA0 \in DOMAIN THROUGHPUT_GAUGES
    /\ THROUGHPUT_GAUGES[PairA0] # FZero
    /\ SamplesOf(rtt_resp, PairA0) # {}
    /\ ~HasPositiveRtt(PairA0)
    /\ ComputedPairs("wan0") = {}
    /\ ComputedPairs("wan1") # {}
    /\ "wan0" \in DOMAIN THROUGHPUT_TOTAL_GAUGES
    /\ THROUGHPUT_TOTAL_GAUGES["wan0"] # FZero

\* ==================================================================== C28
\* The descriptors of the gauges the two maps hold.
DescsOfMaps ==
    {PairDesc(key) : key \in DOMAIN THROUGHPUT_GAUGES}
    \cup {TotalDesc(interface) : interface \in DOMAIN THROUGHPUT_TOTAL_GAUGES}

\* C28: each pair and each interface is registered at most once. A step
\* registers at most one descriptor, that of the key it has just found absent
\* from its gauge map; the registry holds the descriptors of the gauges in
\* the maps and no other; and the unwrap on a failed registration is never
\* reached, so the task never panics.
C28_RegisteredOnce ==
    /\ [](thrPc # "panicked" /\ REGISTRY = DescsOfMaps)
    /\ [][REGISTRY' # REGISTRY =>
            \/ \E key \in MetricKeys :
                  /\ thrPc = "pairs"
                  /\ key \notin DOMAIN THROUGHPUT_GAUGES
                  /\ key \in DOMAIN THROUGHPUT_GAUGES'
                  /\ REGISTRY' = REGISTRY \cup {PairDesc(key)}
            \/ \E interface \in ThrInterfaces :
                  /\ thrPc = "totals"
                  /\ interface \notin DOMAIN THROUGHPUT_TOTAL_GAUGES
                  /\ interface \in DOMAIN THROUGHPUT_TOTAL_GAUGES'
                  /\ REGISTRY' = REGISTRY \cup {TotalDesc(interface)}]_vars

\* A later cycle has set the gauge of a pair an earlier cycle registered.
C28_Witness ==
    /\ thrPc = "pairs"
    /\ lastCycle = "ok"
    /\ "wan0" \in DOMAIN THROUGHPUT_TOTAL_GAUGES
    /\ PairB0 \notin DOMAIN THROUGHPUT_GAUGES
    /\ PairA0 \in DOMAIN THROUGHPUT_GAUGES
    /\ PairA0 \in DOMAIN rtt_map
    /\ rtt_map[PairA0] > 0
    /\ PairA0 \notin pairsLeft
    /\ "wan0" \in DOMAIN interface_totals

\* ==================================================================== C29
\* The number a sample's value text stands for.
DecimalValue(text) ==
    CASE text = "100" -> 100
      [] text = "101" -> 101
      [] text = "250" -> 250

\* A download_bytes or upload_bytes sample with a value above 100.
ToProbe(item) ==
    /\ item.shape = "series"
    /\ item.metric["__name__"] \in {"download_bytes", "upload_bytes"}
    /\ Len(item.value) >= 2
    /\ DecimalValue(item.value[2]) > 100

ProbedSamples == SelectSeq(json.result, ToProbe)

\* The labels of the RTT gauge the probe of metric reports to.
RttKey(metric) == <<metric.ip, metric.interface, metric.data_type>>

\* The probe task i has just come back with an RTT.
ProbeMeasured(i) ==
    /\ i \in DOMAIN handles
    /\ handles[i] = "running"
    /\ handles'[i] = "measured"

\* C29: a cycle probes exactly the download_bytes and upload_bytes samples
\* whose value is greater than 100, one probe each; the RTT gauge of
\* (remote_ip, interface, data_type) is set only by a probe of those labels
\* that succeeded, a failed probe leaves every gauge as it was; and the
\* program is back at its sleep and at its next fetch only when every probe
\* of the cycle has finished.
C29_ProbesAboveThreshold ==
    /\ [](icmpPc = "join" =>
            /\ DOMAIN handles = DOMAIN metrics_list
            /\ Len(metrics_list) = Len(ProbedSamples)
            /\ \A i \in DOMAIN metrics_list :
                  /\ metrics_list[i].ip =
                        LabelOrUnknown(ProbedSamples[i].metric, "remote_ip")
                  /\ metrics_list[i].interface =
                        LabelOrUnknown(ProbedSamples[i].metric, "interface")
                  /\ metrics_list[i].data_type \in DataTypes
                  /\ ProbedSamples[i].metric["__name__"] =
                        IF metrics_list[i].data_type = "download"
                        THEN "download_bytes" ELSE "upload_bytes")
    /\ [][rtt_gauge' # rtt_gauge =>
            \E i \in DOMAIN handles : \E rtt \in RttValues :
                /\ ProbeMeasured(i)
                /\ rtt_gauge' = MapInsert(rtt_gauge, RttKey(metrics_list[i]), rtt)]_vars
    /\ [][(\E i \in DOMAIN handles :
               handles[i] = "running" /\ handles'[i] = "no_rtt")
          => UNCHANGED rtt_gauge]_vars
    /\ [](icmpPc \in {"fetch", "sleep"} =>
            \A i \in DOMAIN handles : handles[i] # "running")

\* A cycle has ended in which a sample of exactly 100 bytes was left out and
\* the only probe failed for a peer whose gauge an earlier cycle had set.
C29_Witness ==
    /\ icmpPc = "sleep"
    /\ json.answer = "json"
    /\ \E j \in DOMAIN json.result :
          /\ json.result[j].shape = "series"
          /\ json.result[j].value = <<0, "100">>
    /\ Len(metrics_list) = 1
    /\ handles = <<"no_rtt">>
    /\ RttKey(metrics_list[1]) \in DOMAIN rtt_gauge

\* ==================================================================== C30
NothingToMeasure == args.interface = <<>> \/ args.server = <<>>

\* The main loop enters a new measurement round.
RoundStarts == tcpPc = "loop" /\ tcpPc' = "measure"

\* C30: without an interface or without a server the probe measures nothing
\* and exits with an error. Otherwise a round starts only while running is
\* true; every measurement, failed or not, adds one result (a rate, ERR or
\* N/A) and leaves the program in its round; and once the handler has set
\* running to false main returns after the round in progress.
C30_StopsOnInterrupt ==
    /\ [](NothingToMeasure =>
            /\ ~measured
            /\ tcpPc \in {"start", "check", "exit2", "killed"})
    /\ [](tcpPc = "exit2" => NothingToMeasure)
    /\ (tcpPc = "check" /\ NothingToMeasure) ~> (tcpPc \in {"exit2", "killed"})
    /\ [][RoundStarts => running]_vars
    /\ [][(tcpPc = "measure" /\ results' # results /\ results' # <<>>) =>
            /\ tcpPc' = "measure"
            /\ Len(results') = Len(results) + 1
            /\ results'[Len(results')].kind \in {"Mbps", "ERR", "N/A"}
            /\ SubSeq(results', 1, Len(results)) = results]_vars
    /\ (~running) ~> (tcpPc = "returned")

\* Ctrl+C has come in the middle of a round, which goes on to its second
\* interface after a failed measurement.
C30_Witness ==
    /\ tcpPc = "measure"
    /\ ~running
    /\ handlerSet
    /\ interfaceIdx = 2
    /\ Len(results) = 2
    /\ results[1].kind = "ERR"
    /\ results[2].kind = "N/A"

====
